---- MODULE Spec2Model ----
(***************************************************************************)
(* Pathway-status engine of the kidney-transplant backend: the TTL cache,  *)
(* the cached JSON storage layer, the status computation service           *)
(* (merge of questionnaire submissions, contraindication classifier, stage *)
(* resolver) and the API handlers that call them.                          *)
(*                                                                         *)
(* Python values are modelled as follows.  None is the empty sequence; a   *)
(* JSON file is the list read_json returns (<<>> when the file is missing);*)
(* an Optional[bool] flag is one of "True", "False", "None"; a uuid is the *)
(* decimal string of a counter; a dict is the sequence of its <<key,       *)
(* value>> pairs in insertion order; a str that the code compares with <   *)
(* is the sequence of its character codes.                                 *)
(***************************************************************************)
EXTENDS Integers, Sequences, FiniteSets, TLC

VARIABLES
    patientFile,        \* data/patients/{device_id}.json
    questionnaireFile,  \* data/questionnaires/{device_id}.json
    checklistFile,      \* data/checklists/{device_id}.json
    statusFile,         \* data/patient_status/{device_id}.json
    patientCache,       \* _patient_cache._cache
    statusCache,        \* _status_cache._cache
    checklistCache,     \* _checklist_cache._cache
    questions,          \* data/questions.json (the question catalog)
    now,                \* time.time()
    nextId,             \* number of uuid.uuid4() values drawn so far
    request,            \* the call being served: its name and arguments
    response,           \* what the call returned
    log                 \* observer's record of earlier calls (history)

vars == <<patientFile, questionnaireFile, checklistFile, statusFile,
          patientCache, statusCache, checklistCache, questions, now, nextId,
          request, response, log>>

files == <<patientFile, questionnaireFile, checklistFile, statusFile>>

caches == <<patientCache, statusCache, checklistCache>>

----------------------------------------------------------------------------
(* Bounds of the model *)

MaxItems == 6       \* longest checklist drawn for the stage resolver
MaxSubs == 2        \* longest questionnaire history
MaxHour == 3        \* submitted_at hours are 1..MaxHour
TickSeconds == 20   \* the clock is observed every TickSeconds seconds
MaxTime == 120      \* the clock stops at MaxTime seconds
MaxCalls == 3       \* storage calls made in one run of the storage layer
MaxRequests == 3    \* API requests served in one run of the application
MaxFaults == 1      \* requests of a run in which a write_json raises
MaxIds == 5         \* uuid.uuid4() values drawn in one run

----------------------------------------------------------------------------
(* Python values *)

None == <<>>

Tri == {"True", "False", "None"}

Range(s) == {s[i] : i \in DOMAIN s}

SeqsUpTo(S, n) == UNION {[1..k -> S] : k \in 0..n}

(* dict: <<key, value>> pairs in insertion order, keys unique *)
DictKeys(d) == {d[i][1] : i \in DOMAIN d}

DictHas(d, k) == k \in DictKeys(d)

DictGet(d, k) == (CHOOSE i \in DOMAIN d : d[i][1] = k) \* d[k], k in d

DictValue(d, k) == d[DictGet(d, k)][2]

DictSet(d, k, v) ==
    IF DictHas(d, k)
    THEN [i \in DOMAIN d |-> IF d[i][1] = k THEN <<k, v>> ELSE d[i]]
    ELSE Append(d, <<k, v>>)

DictValues(d) == [i \in DOMAIN d |-> d[i][2]]

(* str < str: lexicographic on character codes, a proper prefix is smaller *)
RECURSIVE StrLess(_, _)
StrLess(a, b) ==
    IF b = <<>> THEN FALSE
    ELSE IF a = <<>> THEN TRUE
    ELSE IF a[1] < b[1] THEN TRUE
    ELSE IF a[1] > b[1] THEN FALSE
    ELSE StrLess(Tail(a), Tail(b))

Digit(d) == 48 + d      \* ord('0') + d

PlusSign == 43          \* ord('+')

TwoDigits(n) == <<Digit(n \div 10), Digit(n % 10)>>

----------------------------------------------------------------------------
(* database/cache.py: TTLCache.  _cache maps a key to <<value, expiry>>;   *)
(* a key that is not in the dict is not in the function's domain.  Every   *)
(* method runs under self._lock, so each is one step.                      *)

TtlSeconds == 60

Some(v) == <<v>>

TTLCache_get_Inclusive(c, key, t) ==
    IF key \in DOMAIN c
    THEN IF t <= c[key][2]
         THEN [value |-> Some(c[key][1]), cache |-> c]
         ELSE [value |-> None,
               cache |-> [x \in DOMAIN c \ {key} |-> c[x]]]
    ELSE [value |-> None, cache |-> c]

TTLCache_get(c, key, t) ==
    IF key \in DOMAIN c
    THEN IF t < c[key][2]
         THEN [value |-> Some(c[key][1]), cache |-> c]
         ELSE [value |-> None,
               cache |-> [x \in DOMAIN c \ {key} |-> c[x]]]
    ELSE [value |-> None, cache |-> c]

(* a cache of one entry: a set drops every other key *)
TTLCache_set_Capacity(c, key, value, t) ==
    [x \in {key} |-> <<value, t + TtlSeconds>>]

TTLCache_set(c, key, value, t) ==
    [x \in DOMAIN c \cup {key} |->
        IF x = key THEN <<value, t + TtlSeconds>> ELSE c[x]]

TTLCache_invalidate_Noop(c, key) == c

TTLCache_invalidate(c, key) ==
    IF key \in DOMAIN c THEN [x \in DOMAIN c \ {key} |-> c[x]] ELSE c

TTLCache_clear(c) == <<>>

----------------------------------------------------------------------------
(* services/status/computation.py: determine_pathway_stage *)

CompletedItems(items) ==
    Cardinality({i \in DOMAIN items : items[i].is_complete})

(* completed_items / total_items < 0.8.  Both sides are IEEE doubles; the  *)
(* division is correctly rounded, so for list lengths far below 2^50 the   *)
(* comparison agrees with the exact one, 5 * completed < 4 * total.        *)
BelowThresholdMutant(completed_items, total_items) ==
    completed_items * 5 <= total_items * 4

BelowThreshold(completed_items, total_items) ==
    completed_items * 5 < total_items * 4

StageNoCkdFirst(has_questionnaire, checklist, patient) ==
    LET has_referral == IF patient # None THEN patient[1].has_referral
                        ELSE "None"
    IN  IF ~has_questionnaire /\ has_referral = "True" THEN "evaluation"
        ELSE IF patient # None /\ patient[1].has_ckd_esrd = "False"
             THEN "identification"
        ELSE IF ~has_questionnaire THEN "identification"
        ELSE IF has_referral # "True" THEN "referral"
        ELSE IF checklist = None THEN "referral"
        ELSE LET items == checklist[1].items
             IN  IF items = <<>> THEN "referral"
                 ELSE IF BelowThreshold(CompletedItems(items), Len(items))
                      THEN "evaluation"
                 ELSE "selection"

StageReferralNotFalse(has_questionnaire, checklist, patient) ==
    LET has_referral == IF patient # None THEN patient[1].has_referral
                        ELSE "None"
    IN  IF patient # None /\ patient[1].has_ckd_esrd = "False"
        THEN "identification"
        ELSE IF ~has_questionnaire /\ has_referral = "True" THEN "evaluation"
        ELSE IF ~has_questionnaire THEN "identification"
        ELSE IF has_referral = "False" THEN "referral"
        ELSE IF checklist = None THEN "referral"
        ELSE LET items == checklist[1].items
             IN  IF items = <<>> THEN "referral"
                 ELSE IF BelowThreshold(CompletedItems(items), Len(items))
                      THEN "evaluation"
                 ELSE "selection"

StageBeyondSelection(has_questionnaire, checklist, patient) ==
    LET has_referral == IF patient # None THEN patient[1].has_referral
                        ELSE "None"
    IN  IF patient # None /\ patient[1].has_ckd_esrd = "False"
        THEN "identification"
        ELSE IF ~has_questionnaire /\ has_referral = "True" THEN "evaluation"
        ELSE IF ~has_questionnaire THEN "identification"
        ELSE IF has_referral # "True" THEN "referral"
        ELSE IF checklist = None THEN "referral"
        ELSE LET items == checklist[1].items
             IN  IF items = <<>> THEN "referral"
                 ELSE IF BelowThreshold(CompletedItems(items), Len(items))
                      THEN "evaluation"
                 ELSE IF CompletedItems(items) = Len(items)
                      THEN "transplantation"
                 ELSE "selection"

determine_pathway_stage(has_questionnaire, checklist, patient) ==
    LET has_referral == IF patient # None THEN patient[1].has_referral
                        ELSE "None"
    IN  IF patient # None /\ patient[1].has_ckd_esrd = "False"
        THEN "identification"
        ELSE IF ~has_questionnaire /\ has_referral = "True" THEN "evaluation"
        ELSE IF ~has_questionnaire THEN "identification"
        ELSE IF has_referral # "True" THEN "referral"
        ELSE IF has_questionnaire /\ checklist = None THEN "referral"
        ELSE LET items == checklist[1].items
                 completed_items == CompletedItems(items)
                 total_items == Len(items)
             IN  IF items = <<>> THEN "referral"
                 ELSE IF BelowThreshold(completed_items, total_items)
                      THEN "evaluation"
                 ELSE IF ~BelowThreshold(completed_items, total_items)
                      THEN "selection"
                 ELSE "referral"

----------------------------------------------------------------------------
(* database/storage.py.  The model follows one device, "d1"; db is the     *)
(* record of its four JSON files and the three caches.  Each function      *)
(* returns the value it returns in the code and the db it leaves behind.   *)
(* A file is what read_json returns for it: the list it holds, or [] when  *)
(* it is missing or does not parse.                                        *)

PatientKey == "patient:d1"

StatusKey == "status:d1"

ChecklistKey == "checklist:d1"

Db == [patientFile |-> patientFile, questionnaireFile |-> questionnaireFile,
       checklistFile |-> checklistFile, statusFile |-> statusFile,
       patientCache |-> patientCache, statusCache |-> statusCache,
       checklistCache |-> checklistCache]

DbIs(db) ==
    /\ patientFile' = db.patientFile
    /\ questionnaireFile' = db.questionnaireFile
    /\ checklistFile' = db.checklistFile
    /\ statusFile' = db.statusFile
    /\ patientCache' = db.patientCache
    /\ statusCache' = db.statusCache
    /\ checklistCache' = db.checklistCache

(* write_json opens the file with mode 'w' and dumps the list into it.  It *)
(* returns ("written"), or open raises and the file is as it was           *)
(* ("refused"), or the dump raises after the file has been truncated and   *)
(* read_json finds no JSON in it ("truncated").                            *)
WriteOutcomes == {"written", "refused", "truncated"}

write_json(file, data, w) ==
    CASE w = "written" -> data
      [] w = "refused" -> file
      [] w = "truncated" -> <<>>

FirstOrNone(records) == IF records # <<>> THEN Some(records[1]) ELSE None

save_patient(db, patient, t, w) ==
    LET stored == [db EXCEPT !.patientFile = write_json(@, <<patient>>, w)]
    IN  IF w = "written"
        THEN [stored EXCEPT
                !.patientCache = TTLCache_set(@, PatientKey, patient, t)]
        ELSE stored

get_patient(db, t) ==
    LET cached == TTLCache_get(db.patientCache, PatientKey, t)
        patient == FirstOrNone(db.patientFile)
    IN  IF cached.value # None
        THEN [value |-> cached.value,
              db |-> [db EXCEPT !.patientCache = cached.cache]]
        ELSE [value |-> patient,
              db |-> [db EXCEPT !.patientCache =
                        IF patient # None
                        THEN TTLCache_set(cached.cache, PatientKey,
                                          patient[1], t)
                        ELSE cached.cache]]

save_questionnaire_Overwrite(db, questionnaire, w) ==
    [db EXCEPT !.questionnaireFile = write_json(@, <<questionnaire>>, w)]

save_questionnaire(db, questionnaire, w) ==
    [db EXCEPT !.questionnaireFile =
        write_json(@, Append(@, questionnaire), w)]

get_all_questionnaires_for_patient(db, patient_id) ==
    SelectSeq(db.questionnaireFile, LAMBDA q : q.patient_id = patient_id)

save_checklist(db, checklist, t, w) ==
    LET stored == [db EXCEPT
                    !.checklistFile = write_json(@, <<checklist>>, w)]
    IN  IF w = "written"
        THEN [stored EXCEPT
                !.checklistCache =
                    TTLCache_set(@, ChecklistKey, checklist, t)]
        ELSE stored

get_checklist_CacheOnly(db, t) ==
    LET cached == TTLCache_get(db.checklistCache, ChecklistKey, t)
    IN  [value |-> cached.value,
         db |-> [db EXCEPT !.checklistCache = cached.cache]]

get_checklist(db, t) ==
    LET cached == TTLCache_get(db.checklistCache, ChecklistKey, t)
        checklist == FirstOrNone(db.checklistFile)
    IN  IF cached.value # None
        THEN [value |-> cached.value,
              db |-> [db EXCEPT !.checklistCache = cached.cache]]
        ELSE [value |-> checklist,
              db |-> [db EXCEPT !.checklistCache =
                        IF checklist # None
                        THEN TTLCache_set(cached.cache, ChecklistKey,
                                          checklist[1], t)
                        ELSE cached.cache]]

save_patient_status_CacheFirst(db, status, t, w) ==
    [db EXCEPT !.statusFile = write_json(@, <<status>>, w),
               !.statusCache = TTLCache_set(@, StatusKey, status, t)]

save_patient_status(db, status, t, w) ==
    LET stored == [db EXCEPT !.statusFile = write_json(@, <<status>>, w)]
    IN  IF w = "written"
        THEN [stored EXCEPT
                !.statusCache = TTLCache_set(@, StatusKey, status, t)]
        ELSE stored

get_patient_status(db, t) ==
    LET cached == TTLCache_get(db.statusCache, StatusKey, t)
        status == FirstOrNone(db.statusFile)
    IN  IF cached.value # None
        THEN [value |-> cached.value,
              db |-> [db EXCEPT !.statusCache = cached.cache]]
        ELSE [value |-> status,
              db |-> [db EXCEPT !.statusCache =
                        IF status # None
                        THEN TTLCache_set(cached.cache, StatusKey,
                                          status[1], t)
                        ELSE cached.cache]]

(* delete_patient: the financial profile, the documents and the referral   *)
(* state it also removes are not part of db.                               *)
delete_patient(db, t) ==
    LET read == get_patient(db, t).db
    IN  [read EXCEPT
            !.patientCache = TTLCache_invalidate(@, PatientKey),
            !.statusCache = TTLCache_invalidate(@, StatusKey),
            !.checklistCache = TTLCache_invalidate(@, ChecklistKey),
            !.patientFile = <<>>,
            !.questionnaireFile = <<>>,
            !.checklistFile = <<>>,
            !.statusFile = <<>>]

----------------------------------------------------------------------------
(* services/utils.py: convert_datetime_to_iso.  A datetime is              *)
(* [hour, utcoffset]: all submissions are made on one day at a full hour,  *)
(* utcoffset is None for a naive datetime and <<h>> for an aware one at    *)
(* UTC+h.  Of the ISO string "2024-01-01THH:00:00[+hh:00]" the model keeps *)
(* the characters that can differ between two keys: the first digit of the *)
(* year, the hour and the offset.                                          *)

Offsets == {0, 2}

Datetimes ==
    [hour : 1..MaxHour, utcoffset : {None} \cup {Some(o) : o \in Offsets}]

isoformat(dt) ==
    <<Digit(2)>> \o TwoDigits(dt.hour)
        \o (IF dt.utcoffset = None THEN <<>>
            ELSE <<PlusSign>> \o TwoDigits(dt.utcoffset[1]))

convert_datetime_to_iso(value) ==
    IF value = None THEN None ELSE isoformat(value[1])

----------------------------------------------------------------------------
(* services/status/computation.py: the rollup.  A PatientStatus is the     *)
(* record of its fields but updated_at; its id is "None" until a handler   *)
(* sets it.                                                                *)

(* What open() and json.load() make of data/questions.json when it does    *)
(* not hold a list: the exception they raise.  questions is the parsed     *)
(* list otherwise.                                                         *)
Raise(exception) == <<[error |-> exception]>>

CatalogMissing == Raise("FileNotFoundError")

CatalogInvalid == Raise("JSONDecodeError")

(* no read permission, or bytes that are not text: neither is caught *)
CatalogUnreadable == Raise("PermissionError")

(* the two caught exceptions give []; any other leaves the function, and   *)
(* is the value here                                                       *)
load_questions ==
    IF questions \in {CatalogMissing, CatalogInvalid} THEN <<>>
    ELSE questions

(* '0000-00-00T00:00:00' *)
MissingKey == <<Digit(0)>> \o TwoDigits(0)

(* '9999-99-99T99:99:99' *)
get_sort_key_MissingNewest(q) ==
    IF q.submitted_at = None THEN <<Digit(9)>> \o TwoDigits(99)
    ELSE q.submitted_at

get_sort_key(q) ==
    IF q.submitted_at = None THEN MissingKey ELSE q.submitted_at

(* sorted(..., key=get_sort_key, reverse=True): descending and stable, so  *)
(* each element goes after those whose key is not smaller than its own.    *)
InsertDescending(sorted, q) ==
    LET n == Cardinality({i \in DOMAIN sorted :
                ~StrLess(get_sort_key(sorted[i]), get_sort_key(q))})
    IN  SubSeq(sorted, 1, n) \o <<q>> \o SubSeq(sorted, n + 1, Len(sorted))

RECURSIVE SortedDescending(_)
SortedDescending(questionnaires) ==
    IF questionnaires = <<>> THEN <<>>
    ELSE InsertDescending(
            SortedDescending(SubSeq(questionnaires, 1,
                                    Len(questionnaires) - 1)),
            questionnaires[Len(questionnaires)])

SetAnswerIfAbsent(latest_answers, question_id, answer) ==
    IF ~DictHas(latest_answers, question_id)
    THEN DictSet(latest_answers, question_id, answer)
    ELSE latest_answers

RECURSIVE MergeAnswers(_, _)
MergeAnswers(latest_answers, answers) ==
    IF answers = <<>> THEN latest_answers
    ELSE MergeAnswers(
            SetAnswerIfAbsent(latest_answers, answers[1][1], answers[1][2]),
            Tail(answers))

RECURSIVE MergeQuestionnaires(_, _)
MergeQuestionnaires(latest_answers, questionnaires_sorted) ==
    IF questionnaires_sorted = <<>> THEN latest_answers
    ELSE MergeQuestionnaires(
            MergeAnswers(latest_answers, questionnaires_sorted[1].answers),
            Tail(questionnaires_sorted))

LatestAnswers(questionnaires) ==
    MergeQuestionnaires(<<>>, SortedDescending(questionnaires))

(* question_map = {q['id']: q for q in questions}: the last entry wins *)
QuestionInfo(catalog, question_id) ==
    LET hits == {i \in DOMAIN catalog : catalog[i].id = question_id}
    IN  IF hits = {} THEN None
        ELSE Some(catalog[CHOOSE i \in hits : \A j \in hits : j <= i])

RECURSIVE Contraindications_NotNo(_, _, _, _)
Contraindications_NotNo(found, latest_answers, catalog, category) ==
    IF latest_answers = <<>> THEN found
    ELSE LET question_id == latest_answers[1][1]
             answer == latest_answers[1][2]
             question_info == QuestionInfo(catalog, question_id)
             hit == /\ answer # "no"
                    /\ question_info # None
                    /\ question_info[1].category = category
         IN  Contraindications_NotNo(
                IF hit
                THEN DictSet(found, question_id,
                             [id |-> question_id,
                              question |-> question_info[1].question])
                ELSE found,
                Tail(latest_answers), catalog, category)

RECURSIVE Contraindications(_, _, _, _)
Contraindications(found, latest_answers, catalog, category) ==
    IF latest_answers = <<>> THEN found
    ELSE LET question_id == latest_answers[1][1]
             answer == latest_answers[1][2]
             question_info == QuestionInfo(catalog, question_id)
             hit == /\ answer = "yes"
                    /\ question_info # None
                    /\ question_info[1].category = category
         IN  Contraindications(
                IF hit
                THEN DictSet(found, question_id,
                             [id |-> question_id,
                              question |-> question_info[1].question])
                ELSE found,
                Tail(latest_answers), catalog, category)

ContraindicationList_AnyCategory(latest_answers, catalog, category) ==
    IF catalog # <<>>
    THEN DictValues(Contraindications(<<>>, latest_answers, catalog,
                                      "absolute"))
            \o DictValues(Contraindications(<<>>, latest_answers, catalog,
                                            "relative"))
    ELSE <<>>

ContraindicationList(latest_answers, catalog, category) ==
    IF catalog # <<>>
    THEN DictValues(Contraindications(<<>>, latest_answers, catalog,
                                      category))
    ELSE <<>>

create_initial_status_WithQuestionnaire(db, patient_id, t) ==
    LET patient == get_patient(db, t)
        checklist == get_checklist(patient.db, t)
    IN  [value |->
            [id |-> "None",
             patient_id |-> patient_id,
             has_absolute |-> FALSE,
             has_relative |-> FALSE,
             absolute_contraindications |-> <<>>,
             relative_contraindications |-> <<>>,
             pathway_stage |->
                determine_pathway_stage(TRUE, checklist.value,
                                        patient.value)],
         db |-> checklist.db]

create_initial_status(db, patient_id, t) ==
    LET patient == get_patient(db, t)
        checklist == get_checklist(patient.db, t)
    IN  [value |->
            [id |-> "None",
             patient_id |-> patient_id,
             has_absolute |-> FALSE,
             has_relative |-> FALSE,
             absolute_contraindications |-> <<>>,
             relative_contraindications |-> <<>>,
             pathway_stage |->
                determine_pathway_stage(FALSE, checklist.value,
                                        patient.value)],
         db |-> checklist.db]

(* raised is the exception that leaves the function, "None" when it       *)
(* returns value                                                           *)
compute_patient_status_from_all_questionnaires(db, patient_id, t) ==
    LET questionnaires == get_all_questionnaires_for_patient(db, patient_id)
        latest_answers == LatestAnswers(questionnaires)
        absolute_contraindications ==
            ContraindicationList(latest_answers, load_questions, "absolute")
        relative_contraindications ==
            ContraindicationList(latest_answers, load_questions, "relative")
        checklist == get_checklist(db, t)
        patient == get_patient(checklist.db, t)
        initial == create_initial_status(db, patient_id, t)
    IN  IF questionnaires = <<>>
        THEN [value |-> initial.value, db |-> initial.db, raised |-> "None"]
        ELSE IF load_questions = CatalogUnreadable
        THEN [value |-> None, db |-> db,
              raised |-> CatalogUnreadable[1].error]
        ELSE [value |->
                [id |-> "None",
                 patient_id |-> patient_id,
                 has_absolute |-> Len(absolute_contraindications) > 0,
                 has_relative |-> Len(relative_contraindications) > 0,
                 absolute_contraindications |-> absolute_contraindications,
                 relative_contraindications |-> relative_contraindications,
                 pathway_stage |->
                    determine_pathway_stage(TRUE, checklist.value,
                                            patient.value)],
              db |-> patient.db,
              raised |-> "None"]

recompute_pathway_stage_Fresh(db, status, t) ==
    LET checklist == get_checklist(db, t)
        patient == get_patient(checklist.db, t)
    IN  [value |->
            [status EXCEPT
                !.has_absolute = FALSE,
                !.absolute_contraindications = <<>>,
                !.pathway_stage =
                    determine_pathway_stage(TRUE, checklist.value,
                                            patient.value)],
         db |-> patient.db]

recompute_pathway_stage(db, status, t) ==
    LET checklist == get_checklist(db, t)
        patient == get_patient(checklist.db, t)
    IN  [value |->
            [status EXCEPT !.pathway_stage =
                determine_pathway_stage(TRUE, checklist.value,
                                        patient.value)],
         db |-> patient.db]

----------------------------------------------------------------------------
(* The stage resolver on its own: every input, then the call. *)

NoCall == [op |-> "none"]

Idle ==
    /\ patientFile = <<>> /\ questionnaireFile = <<>>
    /\ checklistFile = <<>> /\ statusFile = <<>>
    /\ patientCache = <<>> /\ statusCache = <<>> /\ checklistCache = <<>>
    /\ questions = <<>> /\ now = 0 /\ nextId = 0 /\ log = <<>>

PatientArgs ==
    {None} \cup {<<[id |-> "1", has_ckd_esrd |-> c, has_referral |-> r]>> :
                    c \in Tri, r \in Tri}

ItemsOf(flags) == [i \in DOMAIN flags |-> [id |-> i, is_complete |-> flags[i]]]

ChecklistArgs ==
    {None} \cup {<<[patient_id |-> "1", items |-> ItemsOf(f)]>> :
                    f \in SeqsUpTo(BOOLEAN, MaxItems)}

StageInit ==
    /\ Idle
    /\ request \in [op : {"determine_pathway_stage"},
                    has_questionnaire : BOOLEAN,
                    checklist : ChecklistArgs,
                    patient : PatientArgs]
    /\ response = NoCall

StageCall ==
    /\ request.op = "determine_pathway_stage"
    /\ response = NoCall
    /\ response' = [op |-> "determine_pathway_stage",
                    stage |-> determine_pathway_stage(
                        request.has_questionnaire, request.checklist,
                        request.patient)]
    /\ UNCHANGED <<files, caches, questions, now, nextId, request, log>>

SpecStage == StageInit /\ [][StageCall]_vars

StageReturned == response # NoCall /\ response.op = "determine_pathway_stage"

ArgCkd == IF request.patient = None THEN "None"
          ELSE request.patient[1].has_ckd_esrd

ArgReferral == IF request.patient = None THEN "None"
               ELSE request.patient[1].has_referral

ArgTotal == IF request.checklist = None THEN 0
            ELSE Len(request.checklist[1].items)

ArgCompleted == IF request.checklist = None THEN 0
                ELSE CompletedItems(request.checklist[1].items)

(* C2: a patient record with has_ckd_esrd == false resolves to             *)
(* 'identification' whatever the questionnaire flag, the referral flag and *)
(* the checklist are.                                                      *)
C2_NoCkdIsIdentification ==
    (StageReturned /\ request.patient # None /\ ArgCkd = "False")
        => response.stage = "identification"

C2_Witness ==
    /\ StageReturned
    /\ ArgCkd = "False" /\ ArgReferral = "True"
    /\ request.has_questionnaire
    /\ ArgTotal = 5 /\ ArgCompleted = 5
    /\ response.stage = "identification"

C4_ChecklistBoundary ==
    (/\ StageReturned
     /\ ArgCkd # "False" /\ request.has_questionnaire
     /\ ArgReferral = "True"
     /\ request.checklist # None /\ ArgTotal > 0)
        => /\ (5 * ArgCompleted >= 4 * ArgTotal)
                <=> (response.stage = "selection")
           /\ (5 * ArgCompleted < 4 * ArgTotal)
                <=> (response.stage = "evaluation")

C4_Witness ==
    /\ StageReturned
    /\ ArgCkd = "True" /\ request.has_questionnaire /\ ArgReferral = "True"
    /\ ArgTotal = 5 /\ ArgCompleted = 4
    /\ response.stage = "selection"

(* the stages the resolver produces; the PathwayStage domain has           *)
(* 'transplantation' and 'post-transplant' as well                         *)
ResolvedStages == {"identification", "referral", "evaluation", "selection"}

(* C20: determine_pathway_stage returns for every questionnaire flag,      *)
(* checklist and patient record, and what it returns is one of             *)
(* identification, referral, evaluation and selection, never               *)
(* transplantation or post-transplant.                                     *)
C20_StageRange ==
    StageReturned => response.stage \in ResolvedStages

C20_Witness ==
    /\ StageReturned
    /\ ArgCkd = "True" /\ request.has_questionnaire /\ ArgReferral = "True"
    /\ ArgTotal = MaxItems /\ ArgCompleted = MaxItems
    /\ response.stage = "selection"

----------------------------------------------------------------------------
(* One TTLCache (the status cache instance) driven call by call, with the  *)
(* clock advancing between calls.  log[k] remembers the last set(k, v)     *)
(* that no invalidate(k) or clear() has followed: <<[value, at]>> or None. *)

CacheKeys == {"status:d1", "status:d2"}

CacheValues == {"v1", "v2"}

CacheSpecInit ==
    /\ patientFile = <<>> /\ questionnaireFile = <<>>
    /\ checklistFile = <<>> /\ statusFile = <<>>
    /\ patientCache = <<>> /\ statusCache = <<>> /\ checklistCache = <<>>
    /\ questions = <<>> /\ now = 0 /\ nextId = 0
    /\ request = NoCall /\ response = NoCall
    /\ log = [k \in CacheKeys |-> None]

Tick ==
    /\ now + TickSeconds <= MaxTime
    /\ now' = now + TickSeconds
    /\ UNCHANGED <<files, caches, questions, nextId, request, response, log>>

CacheGetCall(k) ==
    LET r == TTLCache_get(statusCache, k, now)
    IN  /\ statusCache' = r.cache
        /\ request' = [op |-> "get", key |-> k]
        /\ response' = [op |-> "get", key |-> k, value |-> r.value,
                        at |-> now]
        /\ UNCHANGED <<files, patientCache, checklistCache, questions, now,
                       nextId, log>>

CacheSetCall(k, v) ==
    /\ statusCache' = TTLCache_set(statusCache, k, v, now)
    /\ request' = [op |-> "set", key |-> k, value |-> v]
    /\ response' = [op |-> "set", key |-> k, at |-> now]
    /\ log' = [log EXCEPT ![k] = Some([value |-> v, at |-> now])]
    /\ UNCHANGED <<files, patientCache, checklistCache, questions, now,
                   nextId>>

CacheInvalidateCall(k) ==
    /\ statusCache' = TTLCache_invalidate(statusCache, k)
    /\ request' = [op |-> "invalidate", key |-> k]
    /\ response' = [op |-> "invalidate", key |-> k, at |-> now]
    /\ log' = [log EXCEPT ![k] = None]
    /\ UNCHANGED <<files, patientCache, checklistCache, questions, now,
                   nextId>>

CacheClearCall ==
    /\ statusCache' = TTLCache_clear(statusCache)
    /\ request' = [op |-> "clear"]
    /\ response' = [op |-> "clear", at |-> now]
    /\ log' = [k \in CacheKeys |-> None]
    /\ UNCHANGED <<files, patientCache, checklistCache, questions, now,
                   nextId>>

CacheNext ==
    \/ Tick
    \/ \E k \in CacheKeys : CacheGetCall(k)
    \/ \E k \in CacheKeys, v \in CacheValues : CacheSetCall(k, v)
    \/ \E k \in CacheKeys : CacheInvalidateCall(k)
    \/ CacheClearCall

SpecCache == CacheSpecInit /\ [][CacheNext]_vars

(* C8: get(k) at time t returns the value of the most recent set(k, v),    *)
(* performed at time s, iff no invalidate(k) or clear() followed that set  *)
(* and t < s + ttl; otherwise it returns None and the entry is gone.  The  *)
(* expiry is that of the set, however many gets came in between.           *)
C8_TtlExpiry ==
    (response.op = "get") =>
        LET k == response.key
            live == log[k] # None /\ response.at < log[k][1].at + TtlSeconds
        IN  /\ live => response.value = Some(log[k][1].value)
            /\ ~live => /\ response.value = None
                        /\ (now = response.at => k \notin DOMAIN statusCache)

C8_Witness ==
    /\ response.op = "get"
    /\ log[response.key] # None
    /\ response.at = log[response.key][1].at + TtlSeconds
    /\ response.value = None

(* C10: once invalidate(k) has returned, k is not in the cache, and a get  *)
(* returns a value only if a set(k, .) came after the last invalidate(k)   *)
(* or clear(), and then the value of that set; after clear() no key is in  *)
(* the cache.                                                              *)
C10_NoStaleAfterInvalidate ==
    /\ \A k \in CacheKeys : log[k] = None => k \notin DOMAIN statusCache
    /\ (response.op = "get" /\ response.value # None) =>
            /\ log[response.key] # None
            /\ response.value = Some(log[response.key][1].value)
    /\ (response.op = "get" /\ log[response.key] = None) =>
            response.value = None

C10_Witness ==
    /\ response.op = "get"
    /\ response.value = None
    /\ log[response.key] = None
    /\ now < TtlSeconds
    /\ \E k \in CacheKeys : k # response.key /\ k \in DOMAIN statusCache

----------------------------------------------------------------------------
(* The rollup on its own: every questionnaire history of one patient, then *)
(* compute_patient_status_from_all_questionnaires.                         *)

QuestionIds == {"q1", "q2"}

AnswerValues == {"yes", "no"}

AnswerDicts ==
    {d \in SeqsUpTo(QuestionIds \X AnswerValues, Cardinality(QuestionIds)) :
        \A i, j \in DOMAIN d : i # j => d[i][1] # d[j][1]}

StoredTimes == {None} \cup {isoformat(dt) : dt \in Datetimes}

Submissions(patient_id) ==
    [patient_id : {patient_id}, answers : AnswerDicts,
     submitted_at : StoredTimes]

TestCatalog ==
    << [id |-> "q1", category |-> "absolute", question |-> "Question 1?"],
       [id |-> "q2", category |-> "relative", question |-> "Question 2?"] >>

RollupInit ==
    /\ patientFile = << [id |-> "1", has_ckd_esrd |-> "True",
                         has_referral |-> "True"] >>
    /\ questionnaireFile \in SeqsUpTo(Submissions("1"), MaxSubs)
    /\ checklistFile = <<>> /\ statusFile = <<>>
    /\ patientCache = <<>> /\ statusCache = <<>> /\ checklistCache = <<>>
    /\ questions = TestCatalog
    /\ now = 0 /\ nextId = 0 /\ log = <<>>
    /\ request = [op |-> "compute_patient_status_from_all_questionnaires",
                  patient_id |-> "1"]
    /\ response = NoCall

RollupCall ==
    /\ response = NoCall
    /\ LET r == compute_patient_status_from_all_questionnaires(
                    Db, request.patient_id, now)
       IN  /\ DbIs(r.db)
           /\ response' =
                [op |-> "compute_patient_status_from_all_questionnaires",
                 status |-> r.value,
                 raised |-> r.raised,
                 latest_answers |->
                    LatestAnswers(get_all_questionnaires_for_patient(
                                    Db, request.patient_id))]
    /\ UNCHANGED <<questions, now, nextId, request, log>>

SpecRollup == RollupInit /\ [][RollupCall]_vars

RollupCalled ==
    response.op = "compute_patient_status_from_all_questionnaires"

(* the call returned a status *)
RollupReturned == RollupCalled /\ response.raised = "None"

(* The instant a stored submitted_at denotes: its hour less its UTC offset *)
KeyHour(s) == (s[2] - Digit(0)) * 10 + (s[3] - Digit(0))

KeyAware(s) == Len(s) > 3

KeyOffset(s) == (s[5] - Digit(0)) * 10 + (s[6] - Digit(0))

(* a was submitted after b; a naive and an aware timestamp do not compare, *)
(* and an absent one is older than any other                               *)
Newer(a, b) ==
    /\ a.submitted_at # None
    /\ \/ b.submitted_at = None
       \/ /\ ~KeyAware(a.submitted_at) /\ ~KeyAware(b.submitted_at)
          /\ KeyHour(a.submitted_at) > KeyHour(b.submitted_at)
       \/ /\ KeyAware(a.submitted_at) /\ KeyAware(b.submitted_at)
          /\ KeyHour(a.submitted_at) - KeyOffset(a.submitted_at)
                > KeyHour(b.submitted_at) - KeyOffset(b.submitted_at)

Answers(q, question_id) == DictHas(q.answers, question_id)

NewestFor(qs, i, question_id) ==
    /\ Answers(qs[i], question_id)
    /\ \A j \in DOMAIN qs :
            (j # i /\ Answers(qs[j], question_id)) => Newer(qs[i], qs[j])

ListIds(list) == {list[i].id : i \in DOMAIN list}

(* C1: for every history and every question id, the merged answer is that  *)
(* of the newest submission (greatest submittedAt) answering the question; *)
(* a question is missing from the merged map only if no submission answers *)
(* it; a question whose newest answer is not 'yes' is no contraindication. *)
C1_LatestWins ==
    RollupReturned =>
        \A question_id \in QuestionIds :
            /\ DictHas(response.latest_answers, question_id)
                <=> \E i \in DOMAIN questionnaireFile :
                        Answers(questionnaireFile[i], question_id)
            /\ \A i \in DOMAIN questionnaireFile :
                NewestFor(questionnaireFile, i, question_id) =>
                    /\ DictValue(response.latest_answers, question_id)
                        = DictValue(questionnaireFile[i].answers, question_id)
                    /\ DictValue(questionnaireFile[i].answers, question_id)
                            # "yes"
                        => question_id \notin
                            ListIds(response.status.absolute_contraindications)
                            \cup
                            ListIds(response.status.relative_contraindications)

(* The orders in which the store may return the same submissions *)
Orders(n) ==
    {order \in [1..n -> 1..n] : \A i, j \in 1..n :
                                    i # j => order[i] # order[j]}

Reordered(qs, order) == [i \in DOMAIN qs |-> qs[order[i]]]

(* a dict as the map it denotes *)
AsMap(d) == Range(d)

(* C17: the merged answer map is the same for every order in which the     *)
(* store returns the submissions of the patient, also when two of them     *)
(* have an equal or an absent submitted_at and answer a question           *)
(* differently.                                                            *)
C17_OrderIndependence ==
    RollupReturned =>
        \A order \in Orders(Len(questionnaireFile)) :
            AsMap(LatestAnswers(Reordered(questionnaireFile, order)))
                = AsMap(response.latest_answers)

AnsweredYes(q, question_id) ==
    /\ DictHas(q.answers, question_id)
    /\ DictValue(q.answers, question_id) = "yes"

Timestamped(qs) == SelectSeq(qs, LAMBDA q : q.submitted_at # None)

(* C18: a submission without submitted_at never overrides the answer of a  *)
(* submission that has one: for every question a timestamped submission    *)
(* answers, the merged answer is the one the timestamped submissions give  *)
(* on their own.                                                           *)
C18_AbsentSortsOldest ==
    RollupReturned =>
        LET among == LatestAnswers(Timestamped(questionnaireFile))
        IN  \A question_id \in DictKeys(among) :
                /\ DictHas(response.latest_answers, question_id)
                /\ DictValue(response.latest_answers, question_id)
                        = DictValue(among, question_id)

C18_Witness ==
    /\ RollupReturned
    /\ Len(questionnaireFile) = 2
    /\ questionnaireFile[1].submitted_at = None
    /\ questionnaireFile[2].submitted_at # None
    /\ AnsweredYes(questionnaireFile[1], "q1")
    /\ DictHas(questionnaireFile[2].answers, "q1")
    /\ DictValue(questionnaireFile[2].answers, "q1") = "no"
    /\ AnsweredYes(questionnaireFile[1], "q2")
    /\ ~DictHas(questionnaireFile[2].answers, "q2")
    /\ DictValue(response.latest_answers, "q1") = "no"
    /\ DictValue(response.latest_answers, "q2") = "yes"

----------------------------------------------------------------------------
(* The rollup over every patient record, checklist and question catalog:   *)
(* the histories are short, the answers include a value other than yes/no  *)
(* and a question id the catalog does not have, other patients' submissions*)
(* share the questionnaire file, and the catalog may be empty, which is    *)
(* what load_questions returns for a missing or unreadable questions.json. *)

AggregateAnswers ==
    { << <<"q1", "yes">> >>,
      << <<"q1", "no">>, <<"q2", "yes">> >>,
      << <<"q3", "yes">> >>,
      << <<"q1", "maybe">>, <<"q2", "no">> >> }

AggregateTimes == {None, isoformat([hour |-> 1, utcoffset |-> None])}

AggregateSubmissions ==
    [patient_id : {"1"}, answers : AggregateAnswers,
     submitted_at : AggregateTimes]
        \cup {[patient_id |-> "0", answers |-> << <<"q1", "yes">> >>,
               submitted_at |-> None]}

AggregateChecklists ==
    {None, <<[patient_id |-> "1", items |-> <<>>]>>}
        \cup {<<[patient_id |-> "1",
                 items |-> ItemsOf([i \in 1..MaxItems |-> i <= k])]>> :
                    k \in 0..MaxItems}

Catalogs ==
    { CatalogMissing, CatalogInvalid, CatalogUnreadable,
      <<>>,
      TestCatalog,
      << [id |-> "q1", category |-> "general", question |-> "Question 1?"],
         [id |-> "q2", category |-> "absolute", question |-> "Question 2?"] >> }

AggregateInit ==
    /\ patientFile \in PatientArgs
    /\ questionnaireFile \in SeqsUpTo(AggregateSubmissions, MaxSubs)
    /\ checklistFile \in AggregateChecklists
    /\ statusFile = <<>>
    /\ patientCache = <<>> /\ statusCache = <<>> /\ checklistCache = <<>>
    /\ questions \in Catalogs
    /\ now = 0 /\ nextId = 0 /\ log = <<>>
    /\ request = [op |-> "compute_patient_status_from_all_questionnaires",
                  patient_id |-> "1"]
    /\ response = NoCall

SpecAggregate == AggregateInit /\ [][RollupCall]_vars

(* the submissions of the patient the rollup is asked about *)
OwnSubmissions ==
    SelectSeq(questionnaireFile, LAMBDA q : q.patient_id = "1")

StoredCkd == IF patientFile = <<>> THEN "None"
             ELSE patientFile[1].has_ckd_esrd

StoredReferral == IF patientFile = <<>> THEN "None"
                  ELSE patientFile[1].has_referral

NoContraindications(status) ==
    /\ status.has_absolute = FALSE
    /\ status.has_relative = FALSE
    /\ status.absolute_contraindications = <<>>
    /\ status.relative_contraindications = <<>>

(* C13: for a patient with no submission the computed status has no        *)
(* contraindication of either kind, whatever the catalog holds, its stage  *)
(* is the resolver's with has_questionnaire false, and for a patient with  *)
(* has_ckd_esrd and has_referral both true that stage is 'evaluation'      *)
(* whatever the checklist is.                                              *)
C13_InitialStatus ==
    (RollupReturned /\ OwnSubmissions = <<>>) =>
        /\ NoContraindications(response.status)
        /\ response.status.pathway_stage =
                determine_pathway_stage(FALSE, FirstOrNone(checklistFile),
                                        FirstOrNone(patientFile))
        /\ (StoredCkd = "True" /\ StoredReferral = "True")
                => response.status.pathway_stage = "evaluation"

C13_Witness ==
    /\ RollupReturned
    /\ OwnSubmissions = <<>>
    /\ questionnaireFile # <<>>
    /\ questions = TestCatalog
    /\ StoredCkd = "True" /\ StoredReferral = "True"
    /\ checklistFile # <<>>
    /\ CompletedItems(checklistFile[1].items) = MaxItems
    /\ response.status.pathway_stage = "evaluation"
    /\ NoContraindications(response.status)

NoDuplicates(list) ==
    \A i, j \in DOMAIN list : i # j => list[i].id # list[j].id

(* C15: in a computed status no question id occurs twice in the absolute   *)
(* list, none occurs twice in the relative list, and none occurs in both;  *)
(* a question answered 'yes' in two submissions is one contraindication.   *)
C15_Deduplication ==
    RollupReturned =>
        /\ NoDuplicates(response.status.absolute_contraindications)
        /\ NoDuplicates(response.status.relative_contraindications)
        /\ ListIds(response.status.absolute_contraindications)
            \cap ListIds(response.status.relative_contraindications) = {}

C15_Witness ==
    /\ RollupReturned
    /\ Len(OwnSubmissions) = 2
    /\ AnsweredYes(OwnSubmissions[1], "q1")
    /\ AnsweredYes(OwnSubmissions[2], "q1")
    /\ questions = TestCatalog
    /\ Len(response.status.absolute_contraindications) = 1
    /\ response.status.absolute_contraindications[1].id = "q1"
    /\ response.status.relative_contraindications = <<>>

AnsweredIds == {"q1", "q2", "q3"}

InCatalogAs(question_id, category) ==
    \E i \in DOMAIN load_questions :
        /\ load_questions[i].id = question_id
        /\ load_questions[i].category = category

MergedYes(question_id) ==
    /\ DictHas(response.latest_answers, question_id)
    /\ DictValue(response.latest_answers, question_id) = "yes"

(* C16: a question id is in the absolute (relative) list exactly when the  *)
(* catalog has it with category 'absolute' ('relative') and its merged     *)
(* answer is exactly 'yes'; ids the catalog lacks, other categories and    *)
(* other answers add nothing; has_absolute (has_relative) is true exactly  *)
(* when the absolute (relative) list is not empty.                         *)
C16_Classifier ==
    RollupReturned =>
        /\ \A question_id \in AnsweredIds :
            /\ question_id \in
                    ListIds(response.status.absolute_contraindications)
                <=> (MergedYes(question_id)
                        /\ InCatalogAs(question_id, "absolute"))
            /\ question_id \in
                    ListIds(response.status.relative_contraindications)
                <=> (MergedYes(question_id)
                        /\ InCatalogAs(question_id, "relative"))
        /\ ListIds(response.status.absolute_contraindications)
            \cup ListIds(response.status.relative_contraindications)
                \subseteq AnsweredIds
        /\ response.status.has_absolute
            <=> response.status.absolute_contraindications # <<>>
        /\ response.status.has_relative
            <=> response.status.relative_contraindications # <<>>

C16_Witness ==
    /\ RollupReturned
    /\ MergedYes("q1") /\ MergedYes("q2")
    /\ InCatalogAs("q1", "general") /\ InCatalogAs("q2", "absolute")
    /\ ListIds(response.status.absolute_contraindications) = {"q2"}
    /\ response.status.has_absolute
    /\ response.status.relative_contraindications = <<>>
    /\ ~response.status.has_relative

(* C19: with a catalog that is missing, unreadable or empty the rollup of *)
(* a patient with submissions, even all answering 'yes', returns a status: *)
(* no contraindication of either kind, and the stage the resolver gives    *)
(* with has_questionnaire true.                                            *)
C19_CatalogUnavailable ==
    (/\ RollupCalled
     /\ OwnSubmissions # <<>>
     /\ questions \in {CatalogMissing, CatalogInvalid, CatalogUnreadable,
                       <<>>})
        => /\ RollupReturned
           /\ NoContraindications(response.status)
           /\ response.status.pathway_stage =
                determine_pathway_stage(TRUE, FirstOrNone(checklistFile),
                                        FirstOrNone(patientFile))

----------------------------------------------------------------------------
(* The storage layer driven call by call.  log.before is the three caches  *)
(* as they were when the last call started, log.calls the number of calls  *)
(* made so far.                                                            *)

StoragePatients ==
    {[id |-> "1", has_ckd_esrd |-> "True", has_referral |-> r] :
        r \in {"True", "False"}}

StorageChecklists ==
    {[patient_id |-> "1", items |-> ItemsOf(<<c>>)] : c \in BOOLEAN}

StorageStatuses ==
    {[id |-> "1", patient_id |-> "1",
      has_absolute |-> FALSE, has_relative |-> FALSE,
      absolute_contraindications |-> <<>>,
      relative_contraindications |-> <<>>,
      pathway_stage |-> s] : s \in {"referral", "evaluation"}}

StorageInit ==
    /\ patientFile = <<>> /\ questionnaireFile = <<>>
    /\ checklistFile = <<>> /\ statusFile = <<>>
    /\ patientCache = <<>> /\ statusCache = <<>> /\ checklistCache = <<>>
    /\ questions = <<>> /\ now = 0 /\ nextId = 0
    /\ request = NoCall /\ response = NoCall
    /\ log = [before |-> <<<<>>, <<>>, <<>>>>, calls |-> 0]

StorageSaved(op, value, w, db) ==
    /\ log.calls < MaxCalls
    /\ DbIs(db)
    /\ request' = [op |-> op, value |-> value]
    /\ response' = [op |-> op, value |-> value, outcome |-> w, at |-> now]
    /\ log' = [before |-> caches, calls |-> log.calls + 1]
    /\ UNCHANGED <<questions, now, nextId>>

StorageRead(op, r) ==
    /\ log.calls < MaxCalls
    /\ DbIs(r.db)
    /\ request' = [op |-> op]
    /\ response' = [op |-> op, value |-> r.value, at |-> now]
    /\ log' = [before |-> caches, calls |-> log.calls + 1]
    /\ UNCHANGED <<questions, now, nextId>>

SavePatientCall(patient, w) ==
    StorageSaved("save_patient", patient, w, save_patient(Db, patient, now, w))

GetPatientCall == StorageRead("get_patient", get_patient(Db, now))

SaveChecklistCall(checklist, w) ==
    StorageSaved("save_checklist", checklist, w,
                 save_checklist(Db, checklist, now, w))

GetChecklistCall == StorageRead("get_checklist", get_checklist(Db, now))

SavePatientStatusCall(status, w) ==
    StorageSaved("save_patient_status", status, w,
                 save_patient_status(Db, status, now, w))

GetPatientStatusCall ==
    StorageRead("get_patient_status", get_patient_status(Db, now))

DeletePatientCall ==
    StorageRead("delete_patient",
                [value |-> None, db |-> delete_patient(Db, now)])

StorageNext ==
    \/ Tick
    \/ \E patient \in StoragePatients, w \in WriteOutcomes :
            SavePatientCall(patient, w)
    \/ GetPatientCall
    \/ \E checklist \in StorageChecklists, w \in WriteOutcomes :
            SaveChecklistCall(checklist, w)
    \/ GetChecklistCall
    \/ \E status \in StorageStatuses, w \in WriteOutcomes :
            SavePatientStatusCall(status, w)
    \/ GetPatientStatusCall
    \/ DeletePatientCall

SpecStorage == StorageInit /\ [][StorageNext]_vars

SaveOps == {"save_patient", "save_checklist", "save_patient_status"}

(* What the matching get_* returns when the file is gone: the cached value *)
ReadWithoutStore(op) ==
    CASE op = "save_patient" ->
            get_patient([Db EXCEPT !.patientFile = <<>>], now).value
      [] op = "save_checklist" ->
            get_checklist([Db EXCEPT !.checklistFile = <<>>], now).value
      [] op = "save_patient_status" ->
            get_patient_status([Db EXCEPT !.statusFile = <<>>], now).value

FileOf(op) ==
    CASE op = "save_patient" -> patientFile
      [] op = "save_checklist" -> checklistFile
      [] op = "save_patient_status" -> statusFile

CacheOf(op, cs) ==
    CASE op = "save_patient" -> cs[1]
      [] op = "save_checklist" -> cs[3]
      [] op = "save_patient_status" -> cs[2]

----------------------------------------------------------------------------
(* api/: the request handlers.  Each takes the db, its input, the time, the *)
(* number of uuids drawn so far and the write that fails (if any), and      *)
(* returns the HTTP status code, the body, the db it leaves and the number  *)
(* of uuids drawn.  Of the uuids a handler draws the model counts those of  *)
(* the records it keeps an id for: patients and statuses.  A handler in     *)
(* which write_json raises answers 500 and does nothing further.            *)

NoFault == [at |-> 0, how |-> "written"]

Faults(writes) ==
    {NoFault} \cup [at : 1..writes, how : WriteOutcomes \ {"written"}]

Outcome(fault, k) == IF fault.at = k THEN fault.how ELSE "written"

uuid4(n) == ToString(n + 1)

Result(code, body, db, n) ==
    [code |-> code, body |-> body, db |-> db, nextId |-> n]

(* A dict that get_patient or get_checklist returned is the object the     *)
(* cache holds: assigning to its keys changes the cached value in place.   *)
MutateCached(c, key, value) == [c EXCEPT ![key] = <<value, @[2]>>]

DefaultItems == 6

create_default_checklist(patient_id) ==
    [patient_id |-> patient_id,
     items |-> ItemsOf([i \in 1..DefaultItems |-> FALSE])]

create_patient(db, input, t, n, fault) ==
    LET patient_id == uuid4(n)
        patient == [id |-> patient_id,
                    has_ckd_esrd |-> input.has_ckd_esrd,
                    has_referral |-> input.has_referral]
        db1 == save_patient(db, patient, t, Outcome(fault, 1))
        checklist == create_default_checklist(patient_id)
        db2 == save_checklist(db1, checklist, t, Outcome(fault, 2))
        initial == create_initial_status(db2, patient_id, t)
        status == [initial.value EXCEPT !.id = uuid4(n + 1)]
        db3 == save_patient_status(initial.db, status, t, Outcome(fault, 3))
    IN  IF fault.at = 1 THEN Result(500, None, db1, n + 1)
        ELSE IF fault.at = 2 THEN Result(500, None, db2, n + 1)
        ELSE IF fault.at = 3 THEN Result(500, None, db3, n + 2)
        ELSE Result(200, Some(patient), db3, n + 2)

update_patient(db, updates, t, n, fault) ==
    LET existing == get_patient(db, t)
        merged == [existing.value[1] EXCEPT
                    !.has_ckd_esrd =
                        IF DictHas(updates, "has_ckd_esrd")
                        THEN DictValue(updates, "has_ckd_esrd") ELSE @,
                    !.has_referral =
                        IF DictHas(updates, "has_referral")
                        THEN DictValue(updates, "has_referral") ELSE @]
        db1 == save_patient(existing.db, merged, t, Outcome(fault, 1))
    IN  IF existing.value = None THEN Result(404, None, existing.db, n)
        ELSE IF fault.at = 1 THEN Result(500, None, db1, n)
        ELSE Result(200, Some(merged), db1, n)

api_delete_patient(db, t, n) ==
    LET patient == get_patient(db, t)
    IN  IF patient.value = None THEN Result(404, None, patient.db, n)
        ELSE Result(200, None, delete_patient(patient.db, t), n)

submit_questionnaire(db, submission, t, n, fault) ==
    LET patient == get_patient(db, t)
        data == [patient_id |-> submission.patient_id,
                 answers |-> submission.answers,
                 submitted_at |->
                    convert_datetime_to_iso(submission.submitted_at)]
        db1 == save_questionnaire(patient.db, data, Outcome(fault, 1))
        computed == compute_patient_status_from_all_questionnaires(
                        db1, submission.patient_id, t)
        status == [computed.value EXCEPT !.id = uuid4(n)]
        db2 == save_patient_status(computed.db, status, t, Outcome(fault, 2))
    IN  IF patient.value = None THEN Result(404, None, patient.db, n)
        ELSE IF submission.patient_id # patient.value[1].id
             THEN Result(400, None, patient.db, n)
        ELSE IF fault.at = 1 THEN Result(500, None, db1, n)
        ELSE IF fault.at = 2 THEN Result(500, None, db2, n + 1)
        ELSE Result(200, Some(data), db2, n + 1)

(* The PatientStatus constructor: the required fields of the schema must  *)
(* be keys of the dict, the others take their defaults; a dict that lacks  *)
(* a required field raises ValidationError.                                *)
RequiredStatusFields == {"patient_id", "has_absolute", "has_relative"}

DictOrDefault(d, field, default) ==
    IF field \in DOMAIN d THEN d[field] ELSE default

PatientStatus_validates(status_data) ==
    RequiredStatusFields \subseteq DOMAIN status_data

PatientStatus(status_data) ==
    [id |-> DictOrDefault(status_data, "id", "None"),
     patient_id |-> status_data.patient_id,
     has_absolute |-> status_data.has_absolute,
     has_relative |-> status_data.has_relative,
     absolute_contraindications |->
        DictOrDefault(status_data, "absolute_contraindications", <<>>),
     relative_contraindications |->
        DictOrDefault(status_data, "relative_contraindications", <<>>),
     pathway_stage |-> DictOrDefault(status_data, "pathway_stage", "None")]

api_get_patient_status_SavesFirst(db, t, n, fault) ==
    LET cached_status == get_patient_status(db, t)
        patient == get_patient(cached_status.db, t)
        initial == create_initial_status(patient.db, "None", t)
        computed == compute_patient_status_from_all_questionnaires(
                        patient.db, patient.value[1].id, t)
        status == [computed.value EXCEPT !.id = uuid4(n)]
        db1 == save_patient_status(computed.db, status, t, Outcome(fault, 1))
    IN  IF cached_status.value # None
        THEN Result(200, cached_status.value, cached_status.db, n)
        ELSE IF patient.value = None
        THEN Result(404, None,
                    save_patient_status(initial.db, initial.value, t,
                                        "written"), n)
        ELSE IF fault.at = 1 THEN Result(500, None, db1, n + 1)
        ELSE Result(200, Some(status), db1, n + 1)

api_get_patient_status(db, t, n, fault) ==
    LET cached_status == get_patient_status(db, t)
        patient == get_patient(cached_status.db, t)
        computed == compute_patient_status_from_all_questionnaires(
                        patient.db, patient.value[1].id, t)
        existing_status == get_patient_status(computed.db, t)
        preserve == /\ existing_status.value # None
                    /\ existing_status.value[1].id # "None"
        status == [computed.value EXCEPT
                    !.id = IF preserve THEN existing_status.value[1].id
                           ELSE uuid4(n)]
        db1 == save_patient_status(existing_status.db, status, t,
                                   Outcome(fault, 1))
        drawn == IF preserve THEN n ELSE n + 1
    IN  IF cached_status.value # None
        THEN IF PatientStatus_validates(cached_status.value[1])
             THEN Result(200, Some(PatientStatus(cached_status.value[1])),
                         cached_status.db, n)
             ELSE Result(500, None, cached_status.db, n)
        ELSE IF patient.value = None THEN Result(404, None, patient.db, n)
        ELSE IF fault.at = 1 THEN Result(500, None, db1, drawn)
        ELSE Result(200, Some(status), db1, drawn)

create_or_update_checklist(db, checklist, t, n, fault) ==
    LET patient == get_patient(db, t)
        db1 == save_checklist(patient.db, checklist, t, Outcome(fault, 1))
    IN  IF patient.value = None THEN Result(404, None, patient.db, n)
        ELSE IF checklist.patient_id # patient.value[1].id
             THEN Result(400, None, patient.db, n)
        ELSE IF fault.at = 1 THEN Result(500, None, db1, n)
        ELSE Result(200, Some(checklist), db1, n)

(* The status refresh that ends update_checklist_item and                  *)
(* update_referral_state; k is the number of its write in the handler.     *)
RefreshStage(db, body, t, n, fault, k) ==
    LET status_data == get_patient_status(db, t)
        status == recompute_pathway_stage(status_data.db,
                                          status_data.value[1], t)
        db1 == save_patient_status(status.db, status.value, t,
                                   Outcome(fault, k))
    IN  IF status_data.value = None
        THEN Result(200, body, status_data.db, n)
        ELSE IF fault.at = k THEN Result(500, None, db1, n)
        ELSE Result(200, body, db1, n)

update_checklist_item(db, item_id, update_data, t, n, fault) ==
    LET patient == get_patient(db, t)
        checklist_data == get_checklist(patient.db, t)
        items == checklist_data.value[1].items
        found == {i \in DOMAIN items : items[i].id = item_id}
        first == CHOOSE i \in found : \A j \in found : i <= j
        updated == [checklist_data.value[1] EXCEPT
                        !.items[first].is_complete = update_data.is_complete]
        mutated == [checklist_data.db EXCEPT
                        !.checklistCache =
                            MutateCached(@, ChecklistKey, updated)]
        db1 == save_checklist(mutated, updated, t, Outcome(fault, 1))
    IN  IF patient.value = None THEN Result(404, None, patient.db, n)
        ELSE IF checklist_data.value = None
             THEN Result(404, None, checklist_data.db, n)
        ELSE IF found = {} THEN Result(404, None, checklist_data.db, n)
        ELSE IF fault.at = 1 THEN Result(500, None, db1, n)
        ELSE RefreshStage(db1, Some(updated), t, n, fault, 2)

update_referral_state(db, state, t, n, fault) ==
    LET patient == get_patient(db, t)
        updated == [patient.value[1] EXCEPT
                        !.has_referral = DictValue(state, "has_referral")]
        mutated == [patient.db EXCEPT
                        !.patientCache = MutateCached(@, PatientKey, updated)]
        db1 == save_patient(mutated, updated, t, Outcome(fault, 1))
    IN  IF patient.value = None THEN Result(404, None, patient.db, n)
        ELSE IF ~DictHas(state, "has_referral")
             THEN Result(200, Some(state), patient.db, n)
        ELSE IF fault.at = 1 THEN Result(500, None, db1, n)
        ELSE RefreshStage(db1, Some(state), t, n, fault, 2)

----------------------------------------------------------------------------
(* The application: one device sending requests, one at a time, with the   *)
(* catalog of two questions.  log counts the requests served and those in  *)
(* which a write failed.                                                   *)

PatientInputs ==
    [has_ckd_esrd : {"True"}, has_referral : {"True", "None"}]

PatientUpdates ==
    {<<<<"has_ckd_esrd", "False">>>>, <<<<"has_referral", "True">>>>}

ReferralStates ==
    {<<>>, <<<<"has_referral", "True">>>>, <<<<"has_referral", "False">>>>}

(* the ids a client may name: that of the stored patient, or another *)
KnownPatientIds ==
    {patientFile[i].id : i \in DOMAIN patientFile} \cup {"0"}

SubmittedDatetimes ==
    {dt \in Datetimes : dt.utcoffset # None /\ dt.hour <= 2}

SubmissionInputs ==
    [patient_id : KnownPatientIds,
     answers : {<<<<"q1", "yes">>>>, <<<<"q1", "no">>>>},
     submitted_at : {Some(dt) : dt \in SubmittedDatetimes}]

ChecklistInputs ==
    [patient_id : KnownPatientIds, items : {ItemsOf(<<TRUE>>)}]

ItemIds == {1, DefaultItems + 1}

ItemUpdates == [is_complete : BOOLEAN]

Init ==
    /\ patientFile = <<>> /\ questionnaireFile = <<>>
    /\ checklistFile = <<>> /\ statusFile = <<>>
    /\ patientCache = <<>> /\ statusCache = <<>> /\ checklistCache = <<>>
    /\ questions = TestCatalog
    /\ now = 0 /\ nextId = 0
    /\ request = NoCall /\ response = NoCall
    /\ log = [requests |-> 0, faults |-> 0]

MayFail(fault) == fault = NoFault \/ log.faults < MaxFaults

Served(req, fault, r) ==
    /\ log.requests < MaxRequests
    /\ MayFail(fault)
    /\ r.nextId <= MaxIds
    /\ DbIs(r.db)
    /\ nextId' = r.nextId
    /\ request' = req
    /\ response' = [op |-> req.op, code |-> r.code, body |-> r.body]
    /\ log' = [requests |-> log.requests + 1,
               faults |-> IF fault = NoFault THEN log.faults
                          ELSE log.faults + 1]
    /\ UNCHANGED <<questions, now>>

(* time passes: long enough for whatever is cached now to expire *)
Expire ==
    /\ now + TtlSeconds <= MaxTime
    /\ now' = now + TtlSeconds
    /\ UNCHANGED <<files, caches, questions, nextId, request, response, log>>

CreatePatient(input, fault) ==
    Served([op |-> "create_patient", patient |-> input], fault,
           create_patient(Db, input, now, nextId, fault))

UpdatePatient(updates, fault) ==
    Served([op |-> "update_patient", patient_updates |-> updates], fault,
           update_patient(Db, updates, now, nextId, fault))

DeletePatient ==
    Served([op |-> "delete_patient"], NoFault,
           api_delete_patient(Db, now, nextId))

SubmitQuestionnaire(submission, fault) ==
    /\ Len(questionnaireFile) < MaxSubs
    /\ Served([op |-> "submit_questionnaire", submission |-> submission],
              fault,
              submit_questionnaire(Db, submission, now, nextId, fault))

GetPatientStatus(fault) ==
    Served([op |-> "get_patient_status"], fault,
           api_get_patient_status(Db, now, nextId, fault))

CreateOrUpdateChecklist(checklist, fault) ==
    Served([op |-> "create_or_update_checklist", checklist |-> checklist],
           fault,
           create_or_update_checklist(Db, checklist, now, nextId, fault))

UpdateChecklistItem(item_id, update_data, fault) ==
    Served([op |-> "update_checklist_item", item_id |-> item_id,
            update_data |-> update_data], fault,
           update_checklist_item(Db, item_id, update_data, now, nextId,
                                 fault))

UpdateReferralState(state, fault) ==
    Served([op |-> "update_referral_state", state |-> state], fault,
           update_referral_state(Db, state, now, nextId, fault))

Next ==
    \/ Expire
    \/ \E input \in PatientInputs, fault \in Faults(3) :
            CreatePatient(input, fault)
    \/ \E updates \in PatientUpdates, fault \in Faults(1) :
            UpdatePatient(updates, fault)
    \/ DeletePatient
    \/ \E submission \in SubmissionInputs, fault \in Faults(2) :
            SubmitQuestionnaire(submission, fault)
    \/ \E fault \in Faults(1) : GetPatientStatus(fault)
    \/ \E checklist \in ChecklistInputs, fault \in Faults(1) :
            CreateOrUpdateChecklist(checklist, fault)
    \/ \E item_id \in ItemIds, update_data \in ItemUpdates,
          fault \in Faults(2) :
            UpdateChecklistItem(item_id, update_data, fault)
    \/ \E state \in ReferralStates, fault \in Faults(2) :
            UpdateReferralState(state, fault)

Spec == Init /\ [][Next]_vars

(* GET /patient-status sent now, with no write failing *)
NextGet == api_get_patient_status(Db, now, nextId, NoFault)

Submitted == response.op = "submit_questionnaire" /\ response.code = 200

HistoryOf(patient_id) ==
    SelectSeq(questionnaireFile, LAMBDA q : q.patient_id = patient_id)

AbsoluteIds ==
    {questions[i].id : i \in {j \in DOMAIN questions :
                                questions[j].category = "absolute"}}

(* C5: after every successful questionnaire submission the next            *)
(* GET /patient-status returns the rollup over all submissions, the new    *)
(* one included: a catalog-absolute question is in                         *)
(* absolute_contraindications, and has_absolute is true, exactly when the  *)
(* newest submission answering it says 'yes'.                              *)
C5_RollupFreshness ==
    Submitted =>
        LET history == HistoryOf(request.submission.patient_id)
        IN  /\ NextGet.code = 200
            /\ \A question_id \in AbsoluteIds, i \in DOMAIN history :
                NewestFor(history, i, question_id) =>
                    LET yes == DictValue(history[i].answers, question_id)
                                    = "yes"
                        status == NextGet.body[1]
                    IN  /\ yes <=> question_id \in
                                ListIds(status.absolute_contraindications)
                        /\ yes => status.has_absolute
                        /\ (~yes /\ AbsoluteIds = {question_id})
                                => ~status.has_absolute

SameResult(a, b) ==
    /\ a.pathway_stage = b.pathway_stage
    /\ a.has_absolute = b.has_absolute
    /\ a.has_relative = b.has_relative
    /\ Range(a.absolute_contraindications)
            = Range(b.absolute_contraindications)
    /\ Range(a.relative_contraindications)
            = Range(b.relative_contraindications)

(* C6: whatever has been done before, two calls of                         *)
(* compute_patient_status_from_all_questionnaires for the current patient  *)
(* with no write in between, the second right after the first or after any *)
(* time has passed, return the same stage, the same has_absolute and       *)
(* has_relative and set-equal contraindication lists; so do two            *)
(* GET /patient-status.                                                    *)
C6_Idempotence ==
    LET patient == get_patient(Db, now)
        patient_id == patient.value[1].id
        first == compute_patient_status_from_all_questionnaires(
                    Db, patient_id, now)
        again == compute_patient_status_from_all_questionnaires(
                    first.db, patient_id, now)
        later == compute_patient_status_from_all_questionnaires(
                    first.db, patient_id, now + TtlSeconds)
        get1 == NextGet
        get2 == api_get_patient_status(get1.db, now, get1.nextId, NoFault)
        get3 == api_get_patient_status(get1.db, now + TtlSeconds,
                                       get1.nextId, NoFault)
    IN  patient.value # None =>
            /\ SameResult(first.value, again.value)
            /\ SameResult(first.value, later.value)
            /\ get1.code = 200 /\ get2.code = 200 /\ get3.code = 200
            /\ SameResult(get1.body[1], get2.body[1])
            /\ SameResult(get1.body[1], get3.body[1])

(* C7: once a status with an id has been persisted for a patient, every    *)
(* status persisted for that patient later has the same id.                *)
C7_StatusIdStable ==
    [][(/\ statusFile # <<>> /\ statusFile' # <<>>
        /\ statusFile'[1].patient_id = statusFile[1].patient_id)
            => statusFile'[1].id = statusFile[1].id]_vars

----------------------------------------------------------------------------
(* Two GET /patient-status requests of one device served at the same time. *)
(* request[t] is where request t stands and the status it has computed,    *)
(* response[t] what it returned.  Each call of a storage or cache function *)
(* is one step, and save_patient_status is three: write_json opens the     *)
(* file (which empties it), dumps the list, and then the cache is set.     *)
(* The files and caches at the start are those of a patient whose status   *)
(* is not in the store; every cache entry is the record of its file.       *)

Threads == {1, 2}

RacePatients ==
    [id : {"1"}, has_ckd_esrd : {"True", "False"},
     has_referral : {"True", "None"}]

RaceChecklists ==
    {create_default_checklist("1"),
     [patient_id |-> "1", items |-> ItemsOf(<<TRUE>>)]}

RaceSubmissions ==
    {[patient_id |-> "1", answers |-> <<<<"q1", "yes">>>>,
      submitted_at |-> isoformat([hour |-> 1, utcoffset |-> None])],
     [patient_id |-> "1", answers |-> <<<<"q1", "no">>, <<"q2", "yes">>>>,
      submitted_at |-> None]}

(* a cache that holds nothing for the key, or the stored record *)
CachedOrNot(file, key) ==
    IF file = <<>> THEN {<<>>}
    ELSE {<<>>, TTLCache_set(<<>>, key, file[1], 0)}

RaceInit ==
    /\ patientFile \in {<<p>> : p \in RacePatients}
    /\ questionnaireFile \in SeqsUpTo(RaceSubmissions, MaxSubs)
    /\ checklistFile \in {<<>>} \cup {<<c>> : c \in RaceChecklists}
    /\ statusFile = <<>>
    /\ patientCache \in CachedOrNot(patientFile, PatientKey)
    /\ checklistCache \in CachedOrNot(checklistFile, ChecklistKey)
    /\ statusCache = <<>>
    /\ questions = TestCatalog
    /\ now = 0 /\ log = <<>>
    /\ nextId = 1      \* the patient's id has been drawn
    /\ request = [t \in Threads |-> [pc |-> "check", status |-> None]]
    /\ response = [t \in Threads |-> NoCall]

At(t, pc) == request[t].pc = pc

Goto(t, pc) == request' = [request EXCEPT ![t].pc = pc]

Returns(t, code, body, computed) ==
    response' = [response EXCEPT ![t] =
                    [op |-> "get_patient_status", code |-> code,
                     body |-> body, computed |-> computed]]

(* cached_status = database.get_patient_status(device_id) *)
RaceCheck(t) ==
    /\ At(t, "check")
    /\ LET cached_status == get_patient_status(Db, now)
       IN  /\ DbIs(cached_status.db)
           /\ IF cached_status.value # None
              THEN /\ Goto(t, "done")
                   /\ Returns(t, 200, cached_status.value, FALSE)
              ELSE /\ Goto(t, "compute")
                   /\ UNCHANGED response
    /\ UNCHANGED <<questions, now, nextId, log>>

(* database.get_patient and compute_patient_status_from_all_questionnaires *)
RaceCompute(t) ==
    /\ At(t, "compute")
    /\ LET patient == get_patient(Db, now)
           computed == compute_patient_status_from_all_questionnaires(
                            patient.db, patient.value[1].id, now)
       IN  IF patient.value = None
           THEN /\ DbIs(patient.db)
                /\ Goto(t, "done")
                /\ Returns(t, 404, None, FALSE)
           ELSE /\ DbIs(computed.db)
                /\ request' = [request EXCEPT
                                ![t] = [pc |-> "existing",
                                        status |-> Some(computed.value)]]
                /\ UNCHANGED response
    /\ UNCHANGED <<questions, now, nextId, log>>

(* existing_status = database.get_patient_status(device_id), then the id *)
RaceExisting(t) ==
    /\ At(t, "existing")
    /\ LET existing_status == get_patient_status(Db, now)
           preserve == /\ existing_status.value # None
                       /\ existing_status.value[1].id # "None"
       IN  /\ DbIs(existing_status.db)
           /\ request' = [request EXCEPT
                ![t] = [pc |-> "open",
                        status |-> Some([@.status[1] EXCEPT
                            !.id = IF preserve
                                   THEN existing_status.value[1].id
                                   ELSE uuid4(nextId)])]]
           /\ nextId' = IF preserve THEN nextId ELSE nextId + 1
    /\ UNCHANGED <<questions, now, response, log>>

(* write_json: open(path, 'w') *)
RaceOpen(t) ==
    /\ At(t, "open")
    /\ statusFile' = <<>>
    /\ Goto(t, "dump")
    /\ UNCHANGED <<patientFile, questionnaireFile, checklistFile, caches,
                   questions, now, nextId, response, log>>

(* write_json: json.dump and close; whoever dumps last leaves its list *)
RaceDump(t) ==
    /\ At(t, "dump")
    /\ statusFile' = <<request[t].status[1]>>
    /\ Goto(t, "set")
    /\ UNCHANGED <<patientFile, questionnaireFile, checklistFile, caches,
                   questions, now, nextId, response, log>>

(* save_patient_status: cache.set, and the handler returns the status *)
RaceSet(t) ==
    /\ At(t, "set")
    /\ statusCache' = TTLCache_set(statusCache, StatusKey,
                                   request[t].status[1], now)
    /\ Goto(t, "done")
    /\ Returns(t, 200, request[t].status, TRUE)
    /\ UNCHANGED <<files, patientCache, checklistCache, questions, now,
                   nextId, log>>

RaceExpire ==
    /\ now + TtlSeconds <= MaxTime
    /\ now' = now + TtlSeconds
    /\ UNCHANGED <<files, caches, questions, nextId, request, response, log>>

RaceNext ==
    \/ RaceExpire
    \/ \E t \in Threads :
        \/ RaceCheck(t)
        \/ RaceCompute(t)
        \/ RaceExisting(t)
        \/ RaceOpen(t)
        \/ RaceDump(t)
        \/ RaceSet(t)

SpecRace == RaceInit /\ [][RaceNext]_vars

Recomputed(t) == At(t, "done") /\ response[t].code = 200
                    /\ response[t].computed

----------------------------------------------------------------------------
(* Properties of the application, continued *)

StageRefreshed(req, res) ==
    /\ \/ req.op = "update_checklist_item"
       \/ /\ req.op = "update_referral_state"
          /\ DictHas(req.state, "has_referral")
    /\ res.code = 200

SameButStage(a, b) ==
    /\ a.id = b.id
    /\ a.patient_id = b.patient_id
    /\ a.has_absolute = b.has_absolute
    /\ a.has_relative = b.has_relative
    /\ a.absolute_contraindications = b.absolute_contraindications
    /\ a.relative_contraindications = b.relative_contraindications

(* C12: the status that recompute_pathway_stage returns, and that          *)
(* update_checklist_item and update_referral_state then persist, has the   *)
(* id, patient_id, has_absolute, has_relative and both contraindication    *)
(* lists of the status it was given.                                       *)
C12_RecomputeFrame ==
    [][LET given == get_patient_status(Db, now).value
       IN  (/\ log'.requests = log.requests + 1
            /\ StageRefreshed(request', response')
            /\ given # None)
           => /\ SameButStage(
                    recompute_pathway_stage(Db, given[1], now).value,
                    given[1])
              /\ Len(statusFile') = 1
              /\ SameButStage(statusFile'[1], given[1])
              /\ statusFile'[1].pathway_stage =
                    recompute_pathway_stage(Db', given[1], now).value
                        .pathway_stage]_vars

C12_Witness ==
    /\ StageRefreshed(request, response)
    /\ request.op = "update_referral_state"
    /\ DictValue(request.state, "has_referral") = "False"
    /\ Len(statusFile) = 1
    /\ statusFile[1].has_absolute
    /\ statusFile[1].pathway_stage = "referral"

----------------------------------------------------------------------------
(* The three cache instances of database/cache.py driven call by call; log *)
(* counts the calls.                                                       *)

Instances == {"patient", "status", "checklist"}

InstanceKeys == {"k1", "k2"}

Instance(name) ==
    CASE name = "patient" -> patientCache
      [] name = "status" -> statusCache
      [] name = "checklist" -> checklistCache

InstancesInit ==
    /\ patientFile = <<>> /\ questionnaireFile = <<>>
    /\ checklistFile = <<>> /\ statusFile = <<>>
    /\ patientCache = <<>> /\ statusCache = <<>> /\ checklistCache = <<>>
    /\ questions = <<>> /\ now = 0 /\ nextId = 0
    /\ request = NoCall /\ response = NoCall
    /\ log = 0

(* the call leaves name's instance as c *)
InstanceCalled(name, c, req, res) ==
    /\ log < MaxCalls
    /\ log' = log + 1
    /\ patientCache' = IF name = "patient" THEN c ELSE patientCache
    /\ statusCache' = IF name = "status" THEN c ELSE statusCache
    /\ checklistCache' = IF name = "checklist" THEN c ELSE checklistCache
    /\ request' = req
    /\ response' = res
    /\ UNCHANGED <<files, questions, now, nextId>>

InstanceGet(name, k) ==
    LET r == TTLCache_get(Instance(name), k, now)
    IN  InstanceCalled(name, r.cache,
            [op |-> "get", cache |-> name, key |-> k],
            [op |-> "get", value |-> r.value,
             evicted |-> k \in DOMAIN Instance(name) /\ r.value = None])

InstanceSet(name, k, v) ==
    InstanceCalled(name, TTLCache_set(Instance(name), k, v, now),
        [op |-> "set", cache |-> name, key |-> k], [op |-> "set"])

InstanceInvalidate(name, k) ==
    InstanceCalled(name, TTLCache_invalidate(Instance(name), k),
        [op |-> "invalidate", cache |-> name, key |-> k],
        [op |-> "invalidate"])

InstanceClear(name) ==
    InstanceCalled(name, TTLCache_clear(Instance(name)),
        [op |-> "clear", cache |-> name, key |-> "none"], [op |-> "clear"])

InstanceTick ==
    /\ now + TickSeconds <= MaxTime
    /\ now' = now + TickSeconds
    /\ UNCHANGED <<files, caches, questions, nextId, request, response, log>>

InstancesNext ==
    \/ InstanceTick
    \/ \E name \in Instances, k \in InstanceKeys : InstanceGet(name, k)
    \/ \E name \in Instances, k \in InstanceKeys, v \in CacheValues :
            InstanceSet(name, k, v)
    \/ \E name \in Instances, k \in InstanceKeys :
            InstanceInvalidate(name, k)
    \/ \E name \in Instances : InstanceClear(name)

SpecInstances == InstancesInit /\ [][InstancesNext]_vars

SameEntry(before, after, k) ==
    /\ k \in DOMAIN before <=> k \in DOMAIN after
    /\ k \in DOMAIN before => after[k] = before[k]

(* C21: a get, set, invalidate or clear on one cache instance leaves the   *)
(* entries of the other two instances as they were, and a get, set or      *)
(* invalidate of key k leaves every other key of its own instance as it    *)
(* was: nothing is evicted for room.                                       *)
C21_CacheIndependence ==
    [][log' = log + 1 =>
        /\ \A name \in Instances \ {request'.cache} :
                Instance(name)' = Instance(name)
        /\ \A name \in Instances, k \in InstanceKeys :
                (/\ name = request'.cache
                 /\ request'.op # "clear"
                 /\ k # request'.key)
                    => SameEntry(Instance(name), Instance(name)', k)]_vars

C21_Witness ==
    /\ request.op = "get" /\ request.cache = "status" /\ request.key = "k1"
    /\ response.evicted
    /\ "k1" \notin DOMAIN statusCache
    /\ "k1" \in DOMAIN patientCache

----------------------------------------------------------------------------
(* Properties of the application: errors, history and staleness            *)

(* the cache holds no entry for key that a get would return *)
NoLive(c, key) == key \notin DOMAIN c \/ now >= c[key][2]

----------------------------------------------------------------------------
(* The readers of a persisted status, GET /patient-status and              *)
(* build_patient_context, over stored records that may lack fields.        *)

QuestionsOf(list) == [i \in DOMAIN list |-> [question |-> list[i].question]]

(* the pathway stage and status summary of the context *)
build_patient_context(db, patient_id, t) ==
    LET status_data == get_patient_status(db, t)
        d == status_data.value[1]
    IN  [value |->
            IF status_data.value = None
            THEN [pathway_stage |-> "None", status_summary |-> None]
            ELSE IF PatientStatus_validates(d)
            THEN [pathway_stage |-> PatientStatus(d).pathway_stage,
                  status_summary |-> Some(
                    [has_absolute_contraindications |->
                        PatientStatus(d).has_absolute,
                     has_relative_contraindications |->
                        PatientStatus(d).has_relative,
                     absolute_contraindications |->
                        QuestionsOf(PatientStatus(d)
                                        .absolute_contraindications),
                     relative_contraindications |->
                        QuestionsOf(PatientStatus(d)
                                        .relative_contraindications)])]
            ELSE [pathway_stage |-> DictOrDefault(d, "pathway_stage", "None"),
                  status_summary |-> Some(
                    [has_absolute_contraindications |->
                        DictOrDefault(d, "has_absolute", FALSE),
                     has_relative_contraindications |->
                        DictOrDefault(d, "has_relative", FALSE),
                     absolute_contraindications |-> <<>>,
                     relative_contraindications |-> <<>>])],
         db |-> status_data.db]

StatusFields ==
    {"id", "patient_id", "has_absolute", "has_relative",
     "absolute_contraindications", "relative_contraindications",
     "pathway_stage"}

WrittenStatuses ==
    [id : {"2"}, patient_id : {"1"},
     has_absolute : BOOLEAN, has_relative : BOOLEAN,
     absolute_contraindications :
        {<<>>, <<[id |-> "q1", question |-> "Question 1?"]>>},
     relative_contraindications : {<<>>},
     pathway_stage : {"referral", "selection"}]

(* a written status, or one that has lost some of its fields *)
StoredStatuses ==
    {[f \in StatusFields \ lost |-> status[f]] :
        status \in WrittenStatuses, lost \in SUBSET RequiredStatusFields}

ReadersInit ==
    /\ patientFile = << [id |-> "1", has_ckd_esrd |-> "True",
                         has_referral |-> "True"] >>
    /\ questionnaireFile = <<>> /\ checklistFile = <<>>
    /\ statusFile \in {<<status>> : status \in StoredStatuses}
    /\ patientCache = <<>> /\ statusCache = <<>> /\ checklistCache = <<>>
    /\ questions = TestCatalog
    /\ now = 0 /\ nextId = 0 /\ log = <<>>
    /\ request = NoCall /\ response = NoCall

ReadStatusCall ==
    /\ response = NoCall
    /\ LET r == api_get_patient_status(Db, now, nextId, NoFault)
       IN  /\ DbIs(r.db)
           /\ request' = [op |-> "get_patient_status"]
           /\ response' = [op |-> "get_patient_status", code |-> r.code,
                           body |-> r.body]
    /\ UNCHANGED <<questions, now, nextId, log>>

BuildContextCall ==
    /\ response = NoCall
    /\ LET r == build_patient_context(Db, "1", now)
       IN  /\ DbIs(r.db)
           /\ request' = [op |-> "build_patient_context"]
           /\ response' = [op |-> "build_patient_context", code |-> 200,
                           body |-> Some(r.value)]
    /\ UNCHANGED <<questions, now, nextId, log>>

ReadersNext == ReadStatusCall \/ BuildContextCall

SpecReaders == ReadersInit /\ [][ReadersNext]_vars

Malformed == ~PatientStatus_validates(statusFile[1])

(* C23: a stored status that does not parse as a PatientStatus makes       *)
(* neither reader fail; what is reported for it is has_absolute false,     *)
(* has_relative false and empty contraindication lists.                    *)
C23_MalformedFallback ==
    (response # NoCall /\ Malformed) =>
        /\ response.code = 200
        /\ response.op = "build_patient_context" =>
            LET summary == response.body[1].status_summary[1]
            IN  /\ summary.has_absolute_contraindications = FALSE
                /\ summary.has_relative_contraindications = FALSE
                /\ summary.absolute_contraindications = <<>>
                /\ summary.relative_contraindications = <<>>

(* C24: an accepted questionnaire submission adds one record, its own, at  *)
(* the end of the stored history and leaves the earlier records as they    *)
(* were and in order; a submission rejected with 404 (no patient) or 400   *)
(* (another patient's id) changes neither the history nor the stored       *)
(* status.                                                                 *)
C24_AppendOnly ==
    [][(/\ log'.requests = log.requests + 1
        /\ request'.op = "submit_questionnaire")
       => /\ response'.code = 200 =>
                /\ Len(questionnaireFile') = Len(questionnaireFile) + 1
                /\ SubSeq(questionnaireFile', 1, Len(questionnaireFile))
                        = questionnaireFile
                /\ questionnaireFile'[Len(questionnaireFile')].patient_id
                        = request'.submission.patient_id
                /\ questionnaireFile'[Len(questionnaireFile')].answers
                        = request'.submission.answers
          /\ response'.code \in {400, 404} =>
                /\ questionnaireFile' = questionnaireFile
                /\ statusFile' = statusFile]_vars

C24_Witness ==
    /\ Submitted
    /\ Len(questionnaireFile) = 2
    /\ questionnaireFile[2].answers = request.submission.answers
    /\ questionnaireFile[1].answers # questionnaireFile[2].answers
    /\ questionnaireFile[1].patient_id = questionnaireFile[2].patient_id

----------------------------------------------------------------------------
(* storage.delete_patient step by step, with reads of the same device from *)
(* another thread in between.  request.delete is the position of the       *)
(* deleting thread, request.reader the read in progress; log counts the    *)
(* reads started.                                                          *)

DeleteSteps ==
    << "get_patient", "invalidate_patient", "invalidate_status",
       "invalidate_checklist", "unlink_patient", "unlink_questionnaire",
       "unlink_checklist", "unlink_status" >>

ReaderIdle == [pc |-> "idle", kind |-> "none", value |-> None]

KeyOf(kind) ==
    CASE kind = "patient" -> PatientKey
      [] kind = "status" -> StatusKey
      [] kind = "checklist" -> ChecklistKey

StoredOf(kind) ==
    CASE kind = "patient" -> patientFile
      [] kind = "status" -> statusFile
      [] kind = "checklist" -> checklistFile

DeleteInit ==
    /\ patientFile \in {<<p>> : p \in RacePatients}
    /\ questionnaireFile \in {<<q>> : q \in RaceSubmissions}
    /\ checklistFile \in {<<c>> : c \in RaceChecklists}
    /\ statusFile \in {<<s>> : s \in WrittenStatuses}
    /\ patientCache \in CachedOrNot(patientFile, PatientKey)
    /\ checklistCache \in CachedOrNot(checklistFile, ChecklistKey)
    /\ statusCache \in CachedOrNot(statusFile, StatusKey)
    /\ questions = TestCatalog
    /\ now = 0 /\ nextId = 2 /\ log = 0
    /\ request = [delete |-> 1, reader |-> ReaderIdle]
    /\ response = NoCall

(* the next statement of delete_patient *)
DeleteStep ==
    /\ request.delete <= Len(DeleteSteps)
    /\ LET step == DeleteSteps[request.delete]
           read == get_patient(Db, now)
       IN  /\ patientCache' =
                IF step = "get_patient" THEN read.db.patientCache
                ELSE IF step = "invalidate_patient"
                THEN TTLCache_invalidate(patientCache, PatientKey)
                ELSE patientCache
           /\ statusCache' =
                IF step = "invalidate_status"
                THEN TTLCache_invalidate(statusCache, StatusKey)
                ELSE statusCache
           /\ checklistCache' =
                IF step = "invalidate_checklist"
                THEN TTLCache_invalidate(checklistCache, ChecklistKey)
                ELSE checklistCache
           /\ patientFile' =
                IF step = "unlink_patient" THEN <<>> ELSE patientFile
           /\ questionnaireFile' =
                IF step = "unlink_questionnaire" THEN <<>>
                ELSE questionnaireFile
           /\ checklistFile' =
                IF step = "unlink_checklist" THEN <<>> ELSE checklistFile
           /\ statusFile' =
                IF step = "unlink_status" THEN <<>> ELSE statusFile
    /\ request' = [request EXCEPT !.delete = @ + 1]
    /\ UNCHANGED <<questions, now, nextId, log, response>>

ReaderMoves(kind, c, reader, res) ==
    /\ patientCache' = IF kind = "patient" THEN c ELSE patientCache
    /\ statusCache' = IF kind = "status" THEN c ELSE statusCache
    /\ checklistCache' = IF kind = "checklist" THEN c ELSE checklistCache
    /\ request' = [request EXCEPT !.reader = reader]
    /\ response' = res
    /\ UNCHANGED <<files, questions, now, nextId>>

ReadReturns(kind, value) ==
    [op |-> "get", kind |-> kind, value |-> value,
     deleted |-> request.delete > Len(DeleteSteps)]

(* cached = cache.get(cache_key); if cached is not None: return cached *)
ReaderCheck(kind) ==
    /\ request.reader.pc = "idle"
    /\ log < MaxCalls
    /\ log' = log + 1
    /\ LET cached == TTLCache_get(Instance(kind), KeyOf(kind), now)
       IN  IF cached.value # None
           THEN ReaderMoves(kind, cached.cache, ReaderIdle,
                            ReadReturns(kind, cached.value))
           ELSE ReaderMoves(kind, cached.cache,
                            [pc |-> "read", kind |-> kind, value |-> None],
                            response)

(* records = read_json(filepath); record = records[0] if records else None *)
ReaderRead ==
    /\ request.reader.pc = "read"
    /\ LET kind == request.reader.kind
           record == FirstOrNone(StoredOf(kind))
       IN  IF record = None
           THEN ReaderMoves(kind, Instance(kind), ReaderIdle,
                            ReadReturns(kind, None))
           ELSE ReaderMoves(kind, Instance(kind),
                            [pc |-> "set", kind |-> kind, value |-> record],
                            response)
    /\ UNCHANGED log

(* cache.set(cache_key, record); return record *)
ReaderSet ==
    /\ request.reader.pc = "set"
    /\ LET kind == request.reader.kind
           record == request.reader.value
       IN  ReaderMoves(kind,
                TTLCache_set(Instance(kind), KeyOf(kind), record[1], now),
                ReaderIdle, ReadReturns(kind, record))
    /\ UNCHANGED log

DeleteNext ==
    \/ DeleteStep
    \/ \E kind \in Instances : ReaderCheck(kind)
    \/ ReaderRead
    \/ ReaderSet

SpecDelete == DeleteInit /\ [][DeleteNext]_vars

DeleteReturned == request.delete > Len(DeleteSteps)

(* C25: once delete_patient has returned, get_patient, get_checklist and   *)
(* get_patient_status of the device return None, also when another thread  *)
(* read the device between the cache invalidation and the removal of the   *)
(* files.                                                                  *)
C25_DeleteComplete ==
    (DeleteReturned /\ request.reader = ReaderIdle) =>
        /\ get_patient(Db, now).value = None
        /\ get_checklist(Db, now).value = None
        /\ get_patient_status(Db, now).value = None

----------------------------------------------------------------------------
(* Properties of the application: the stage and its inputs *)

(* the Stage Resolver on what the store holds now *)
ResolvedNow ==
    determine_pathway_stage(HistoryOf(patientFile[1].id) # <<>>,
                            FirstOrNone(checklistFile),
                            FirstOrNone(patientFile))

(* C26: after PATCH /checklist/items or a referral-state update has        *)
(* recomputed the stage, the pathway_stage of the persisted status is the  *)
(* Stage Resolver's result for the current patient flags, the current      *)
(* checklist and hasAnyQuestionnaire = "at least one submission exists",   *)
(* also for a patient with no submission.                                  *)
C26_StageConsistency ==
    (/\ StageRefreshed(request, response)
     /\ log.faults = 0
     /\ patientFile # <<>> /\ statusFile # <<>>)
        => statusFile[1].pathway_stage = ResolvedNow

InputsReplaced ==
    /\ response.op \in {"update_patient", "create_or_update_checklist"}
    /\ response.code = 200

(* C27: after PATCH /patients has changed has_ckd_esrd or has_referral, or *)
(* POST /checklist has replaced the checklist, the next                    *)
(* GET /patient-status returns the stage the resolver gives for the new    *)
(* flags and checklist, never one computed from the overwritten inputs.    *)
C27_StatusFollowsInputs ==
    (InputsReplaced /\ log.faults = 0 /\ patientFile # <<>>) =>
        /\ NextGet.code = 200
        /\ NextGet.body[1].pathway_stage = ResolvedNow

----------------------------------------------------------------------------
(* Two threads writing to the store of one device at the same time.        *)
(* request[t] is the call of thread t: kind names the record it saves      *)
(* ("questionnaire" for POST /questionnaire, which saves the submission    *)
(* and then the status), value the record, data the list save_questionnaire*)
(* has read (and, after the append, written), pc the statement it stands   *)
(* before.  write_json followed by cache.set are two steps of the saving   *)
(* thread.                                                                 *)

SaveCalls ==
    [pc : {"write"}, kind : {"patient"}, value : RacePatients, data : {<<>>}]
        \cup
    [pc : {"write"}, kind : {"checklist"}, value : RaceChecklists,
     data : {<<>>}]
        \cup
    [pc : {"write"}, kind : {"status"},
     value : {s \in WrittenStatuses : ~s.has_relative}, data : {<<>>}]
        \cup
    [pc : {"read"}, kind : {"questionnaire"}, value : RaceSubmissions,
     data : {<<>>}]

WritersInit ==
    /\ patientFile \in {<<p>> : p \in RacePatients}
    /\ checklistFile \in {<<c>> : c \in RaceChecklists}
    /\ questionnaireFile = <<>> /\ statusFile = <<>>
    /\ patientCache = <<>> /\ statusCache = <<>> /\ checklistCache = <<>>
    /\ questions = TestCatalog
    /\ now = 0 /\ nextId = 1 /\ log = 0
    /\ request \in {r \in [Threads -> SaveCalls] :
                        /\ r[1].kind = r[2].kind
                        /\ r[1].value # r[2].value}
    /\ response = NoCall

(* write_json(filepath, [record]) of save_patient, save_checklist and      *)
(* save_patient_status                                                     *)
SaverWrite(t) ==
    /\ At(t, "write")
    /\ LET kind == request[t].kind
           record == request[t].value
       IN  /\ patientFile' =
                IF kind = "patient" THEN <<record>> ELSE patientFile
           /\ checklistFile' =
                IF kind = "checklist" THEN <<record>> ELSE checklistFile
           /\ statusFile' =
                IF kind = "status" THEN <<record>> ELSE statusFile
    /\ Goto(t, "set")
    /\ UNCHANGED <<questionnaireFile, caches, questions, now, nextId, log,
                   response>>

(* cache.set(cache_key, record) of the same functions *)
SaverSet(t) ==
    /\ At(t, "set")
    /\ LET kind == request[t].kind
           c == TTLCache_set(Instance(kind), KeyOf(kind),
                             request[t].value, now)
       IN  /\ patientCache' = IF kind = "patient" THEN c ELSE patientCache
           /\ checklistCache' =
                IF kind = "checklist" THEN c ELSE checklistCache
           /\ statusCache' = IF kind = "status" THEN c ELSE statusCache
    /\ Goto(t, "done")
    /\ UNCHANGED <<files, questions, now, nextId, log, response>>

(* save_questionnaire: data = read_json(filepath) *)
SubmitRead(t) ==
    /\ At(t, "read")
    /\ request' = [request EXCEPT ![t].pc = "append",
                                  ![t].data = questionnaireFile]
    /\ UNCHANGED <<files, caches, questions, now, nextId, log, response>>

(* save_questionnaire: data.append(questionnaire); write_json(filepath,    *)
(* data)                                                                   *)
SubmitAppend(t) ==
    /\ At(t, "append")
    /\ LET data == Append(request[t].data, request[t].value)
       IN  /\ questionnaireFile' = data
           /\ request' = [request EXCEPT ![t].pc = "compute",
                                         ![t].data = data]
    /\ log' = log + 1
    /\ UNCHANGED <<patientFile, checklistFile, statusFile, caches, questions,
                   now, nextId, response>>

(* status = compute_patient_status_from_all_questionnaires(patient_id);    *)
(* status.id = str(uuid.uuid4()); database.save_patient_status follows     *)
SubmitCompute(t) ==
    /\ At(t, "compute")
    /\ LET status == compute_patient_status_from_all_questionnaires(
                        Db, request[t].value.patient_id, now)
       IN  /\ DbIs(status.db)
           /\ request' = [request EXCEPT
                ![t] = [pc |-> "write", kind |-> "status",
                        value |-> [status.value EXCEPT !.id = uuid4(nextId)],
                        data |-> @.data]]
    /\ nextId' = nextId + 1
    /\ UNCHANGED <<questions, now, log, response>>

WritersNext ==
    \E t \in Threads :
        \/ SaverWrite(t)
        \/ SaverSet(t)
        \/ SubmitRead(t)
        \/ SubmitAppend(t)
        \/ SubmitCompute(t)

SpecWriters == WritersInit /\ [][WritersNext]_vars

AllReturned == \A t \in Threads : At(t, "done")

(* C28: once concurrent save_patient_status (save_checklist, save_patient) *)
(* calls with different values have all returned, the cache entry of the   *)
(* device is the record in the store, so no reader gets from the cache a   *)
(* value other than the last one written to the store.                     *)
C28_CacheStoreCoherence ==
    AllReturned =>
        \A kind \in Instances :
            KeyOf(kind) \in DOMAIN Instance(kind) =>
                <<Instance(kind)[KeyOf(kind)][1]>> = StoredOf(kind)

(* the submission thread t has appended *)
Submission(t) == request[t].data[Len(request[t].data)]

(* C29: when two POST /questionnaire for the same patient run at the same  *)
(* time, both submissions are in the stored history after both have        *)
(* returned, and the status persisted last is the rollup over both.        *)
C29_NoLostSubmission ==
    (AllReturned /\ \A t \in Threads : request[t].data # <<>>) =>
        /\ \A t \in Threads : Submission(t) \in Range(questionnaireFile)
        /\ SameResult(
                statusFile[1],
                compute_patient_status_from_all_questionnaires(
                    Db, "1", now).value)

----------------------------------------------------------------------------
(* One TTLCache (the status cache) used by two threads, statement by       *)
(* statement.  request.lock is the thread holding self._lock (0: nobody),  *)
(* request.frame[t] the method thread t is in: the statement it stands     *)
(* before, its arguments, the value it will return, and two history        *)
(* fields, the map when the thread took the lock and the time.time() it    *)
(* read.  response[t] is what the last call of thread t returned; log      *)
(* counts the calls.                                                       *)

LockedCalls ==
    [op : {"get", "invalidate"}, key : InstanceKeys, value : {0}]
        \cup [op : {"set"}, key : InstanceKeys, value : {1, 2}]
        \cup [op : {"clear"}, key : {"k1"}, value : {0}]

IdleFrame ==
    [pc |-> "idle", call |-> [op |-> "none", key |-> "k1", value |-> 0],
     result |-> None, before |-> <<>>, at |-> 0]

(* a lock without mutual exclusion *)
Lock_acquirable_Always(holder) == TRUE

(* with self._lock: the lock can be taken when no thread holds it *)
Lock_acquirable(holder) == holder = 0

LockedInit ==
    /\ patientFile = <<>> /\ questionnaireFile = <<>>
    /\ checklistFile = <<>> /\ statusFile = <<>>
    /\ patientCache = <<>> /\ statusCache = <<>> /\ checklistCache = <<>>
    /\ questions = <<>> /\ now = 0 /\ nextId = 0 /\ log = 0
    /\ request = [lock |-> 0, frame |-> [t \in Threads |-> IdleFrame]]
    /\ response = [t \in Threads |-> NoCall]

InFrame(t, pc) == request.frame[t].pc = pc

Steps(t, frame) ==
    /\ request' = [request EXCEPT !.frame[t] = frame]
    /\ UNCHANGED <<files, patientCache, checklistCache, questions, nextId,
                   response>>

(* a thread calls a method and enters its with block *)
Enter(t, call) ==
    /\ InFrame(t, "idle")
    /\ log < MaxCalls
    /\ Lock_acquirable(request.lock)
    /\ request' = [request EXCEPT
            !.lock = t,
            !.frame[t] = [IdleFrame EXCEPT !.pc = call.op, !.call = call,
                                           !.before = statusCache]]
    /\ log' = log + 1
    /\ UNCHANGED <<files, caches, questions, now, nextId, response>>

(* get: if key in self._cache: value, expiry = self._cache[key];           *)
(* if time.time() < expiry: return value                                   *)
GetCheck(t) ==
    /\ InFrame(t, "get")
    /\ LET frame == request.frame[t]
           key == frame.call.key
       IN  Steps(t, [frame EXCEPT
                !.at = now,
                !.pc = IF key \in DOMAIN statusCache
                          /\ ~(now < statusCache[key][2])
                       THEN "delete" ELSE "exit",
                !.result = IF key \in DOMAIN statusCache
                              /\ now < statusCache[key][2]
                           THEN Some(statusCache[key][1]) ELSE None])
    /\ UNCHANGED <<statusCache, now, log>>

(* get: del self._cache[key]; return None.  del raises KeyError when the   *)
(* key is gone.                                                            *)
GetDelete(t) ==
    /\ InFrame(t, "delete")
    /\ LET frame == request.frame[t]
           key == frame.call.key
       IN  /\ statusCache' =
                [x \in DOMAIN statusCache \ {key} |-> statusCache[x]]
           /\ Steps(t, [frame EXCEPT
                !.pc = "exit",
                !.result = IF key \in DOMAIN statusCache THEN None
                           ELSE Some("KeyError")])
    /\ UNCHANGED <<now, log>>

(* the body of set, of invalidate or of clear *)
Update(t) ==
    /\ \/ InFrame(t, "set") \/ InFrame(t, "invalidate") \/ InFrame(t, "clear")
    /\ LET frame == request.frame[t]
           call == frame.call
       IN  /\ statusCache' =
                CASE call.op = "set" ->
                        TTLCache_set(statusCache, call.key, call.value, now)
                  [] call.op = "invalidate" ->
                        TTLCache_invalidate(statusCache, call.key)
                  [] call.op = "clear" -> TTLCache_clear(statusCache)
           /\ Steps(t, [frame EXCEPT !.pc = "exit", !.at = now])
    /\ UNCHANGED <<now, log>>

(* the with block ends: the lock is released and the method returns *)
Exit(t) ==
    /\ InFrame(t, "exit")
    /\ request' = [request EXCEPT !.lock = 0, !.frame[t] = IdleFrame]
    /\ response' = [response EXCEPT ![t] =
            [op |-> request.frame[t].call.op,
             key |-> request.frame[t].call.key,
             value |-> request.frame[t].result,
             evicted |-> request.frame[t].call.key
                            \in DOMAIN request.frame[t].before
                         /\ request.frame[t].call.op = "get"
                         /\ request.frame[t].result = None]]
    /\ UNCHANGED <<files, caches, questions, now, nextId, log>>

LockedTick ==
    /\ now + TickSeconds <= MaxTime
    /\ now' = now + TickSeconds
    /\ UNCHANGED <<files, caches, questions, nextId, request, response, log>>

LockedNext ==
    \/ LockedTick
    \/ \E t \in Threads :
        \/ \E call \in LockedCalls : Enter(t, call)
        \/ GetCheck(t)
        \/ GetDelete(t)
        \/ Update(t)
        \/ Exit(t)

SpecLocked == LockedInit /\ [][LockedNext]_vars

(* what the call does to the map c when it runs at time t in one step *)
Effect(call, c, t) ==
    CASE call.op = "get" -> TTLCache_get(c, call.key, t).cache
      [] call.op = "set" -> TTLCache_set(c, call.key, call.value, t)
      [] call.op = "invalidate" -> TTLCache_invalidate(c, call.key)
      [] call.op = "clear" -> TTLCache_clear(c)

(* C30: get, set, invalidate and clear called from several threads on one  *)
(* TTLCache each take effect as one indivisible step: a thread is inside a *)
(* method only while it holds the lock, the map a method leaves is the map *)
(* it found changed by that one operation, get returns what the map it     *)
(* found held, and get removes an entry only when the entry has expired,   *)
(* never one whose expiry lies in the future.                              *)
C30_AtomicOperations ==
    [][\A t \in Threads :
        LET frame == request.frame[t]
        IN  /\ (request'.frame[t] # frame /\ frame.pc # "idle")
                    => request.lock = t
            /\ (frame.pc = "exit" /\ request'.frame[t] # frame) =>
                    /\ statusCache = Effect(frame.call, frame.before, frame.at)
                    /\ frame.call.op = "get" =>
                            frame.result = TTLCache_get(
                                frame.before, frame.call.key, frame.at).value
            /\ (frame.pc = "delete" /\ request'.frame[t] # frame) =>
                    /\ frame.call.key \in DOMAIN statusCache
                    /\ now >= statusCache[frame.call.key][2]]_vars

C30_Witness ==
    /\ response[1].op = "get" /\ response[1].evicted
    /\ response[2].op = "set" /\ response[2].key = response[1].key
    /\ response[1].key \in DOMAIN statusCache
    /\ now < statusCache[response[1].key][2]
    /\ request.frame[2].pc = "idle"

====
